---- MODULE Spec2Model ----
(***************************************************************************)
(* Model of the studio repository: the Preview Supervisor                  *)
(* (packages/preview/src/types.ts, PreviewManagerImpl) for one project     *)
(* path, and the Change Applier's path containment                         *)
(* (packages/codegen/src/apply.ts).                                        *)
(***************************************************************************)
EXTENDS Integers, Sequences, FiniteSets, TLC

\* ------------------------------------------------------------------------
\* Bounds of the model
\* ------------------------------------------------------------------------
\* start() and stop() calls issued in one behaviour, stdout/stderr chunks
MaxCalls == 2
MaxChunks == 1

\* ------------------------------------------------------------------------
\* Program constants
\* ------------------------------------------------------------------------
MAX_LOG_LINES == 900
TAIL_LINES == 120
DEFAULT_HOST == "127.0.0.1"
DEFAULT_PORT == 3000

StartCalls == 1..MaxCalls
StopCalls == 1..MaxCalls
\* every start() call spawns at most one child: the child of call c is c
Procs == StartCalls
Ports == {DEFAULT_PORT, DEFAULT_PORT + 1}
ExitKinds == {"code0", "code1", "SIGTERM", "SIGINT", "SIGKILL"}

VARIABLES inst, procs, starts, stops, chunks, ret, ch, wf, ap, fx, run, parser, rp, appended, dh

previewVars == <<inst, procs, starts, stops, chunks, ret>>
applyVars == <<ch, wf, ap>>
fixVars == <<fx, run>>
parseVars == <<parser>>
repairVars == <<rp>>
logVars == <<appended>>
historyVars == <<dh>>
vars == <<inst, procs, starts, stops, chunks, ret, ch, wf, ap, fx, run, parser, rp, appended, dh>>

\* ------------------------------------------------------------------------
\* Helpers of the supervisor
\* ------------------------------------------------------------------------
\* Array.prototype.slice(-n) for n > 0
LastN(s, n) == IF Len(s) <= n THEN s ELSE SubSeq(s, Len(s) - n + 1, Len(s))

\* the buffer that keeps its oldest lines
pushLogLine_KeepOldest(logs, line) ==
  LET l == Append(logs, line)
  IN IF Len(l) > MAX_LOG_LINES THEN SubSeq(l, 1, MAX_LOG_LINES) ELSE l
pushLogLine(logs, line) ==
  LET l == Append(logs, line)
  IN IF Len(l) > MAX_LOG_LINES THEN SubSeq(l, Len(l) - MAX_LOG_LINES + 1, Len(l)) ELSE l

\* the text of a log line is not modelled: every line is the same token
LINE == "line"

\* inst.error: undefined, or a message; the three messages built with
\* "Last logs:" carry logs.slice(-120) (hasLogs, lastLogs)
NoError == [msg |-> "undefined", hasLogs |-> FALSE, lastLogs |-> <<>>]
PlainError(m) == [msg |-> m, hasLogs |-> FALSE, lastLogs |-> <<>>]
TailError(m, logs) == [msg |-> m, hasLogs |-> TRUE, lastLogs |-> LastN(logs, TAIL_LINES)]

toStatus(i) ==
  [state |-> i.state, host |-> i.host, port |-> i.port, url |-> i.url, pid |-> i.pid,
   startedAt |-> i.startedAt, error |-> i.error,
   lastLog |-> IF Len(i.logs) > 0 THEN i.logs[Len(i.logs)] ELSE "undefined"]

NoStatus == [state |-> "none", host |-> "", port |-> 0, url |-> 0, pid |-> 0,
             startedAt |-> 0, error |-> NoError, lastLog |-> "undefined"]

\* PreviewLogsOptions: tail is optional
NoOpts == [has |-> FALSE, tail |-> 0]
TailOpts(n) == [has |-> TRUE, tail |-> n]
DEFAULT_TAIL == 250
\* Array.prototype.slice(start): a negative start counts from the end, and
\* -0 is 0, the beginning of the array
slice(s, start) ==
  LET k == IF start < 0
           THEN (IF Len(s) + start > 0 THEN Len(s) + start ELSE 0)
           ELSE (IF start < Len(s) THEN start ELSE Len(s))
  IN SubSeq(s, k + 1, Len(s))
\* PreviewManagerImpl.logs
previewLogs(i, opts) ==
  IF ~i.known THEN <<>>
  ELSE LET tail == IF opts.has THEN opts.tail ELSE DEFAULT_TAIL
       IN slice(i.logs, 0 - tail)

\* one attempt of killProcessTree to deliver a signal: process.kill(-pid)
\* reaches the process group when the child leads one (proc.killed is left
\* alone), otherwise proc.kill() delivers it and sets proc.killed; a child
\* that is gone or never spawned receives nothing.
SendSignal(ps, p, sig) ==
  IF ps[p].status = "live"
  THEN { [ps EXCEPT ![p].sigs = @ \cup {sig}],
         [ps EXCEPT ![p].sigs = @ \cup {sig}, ![p].killed = TRUE] }
  ELSE { ps }

\* killProcessTree up to its timer
killProcessTreeBegin_NoSignal(ps, p) == { ps }
killProcessTreeBegin(ps, p) ==
  IF ps[p].killed THEN { ps } ELSE SendSignal(ps, p, "SIGTERM")

\* killProcessTree after the 1600 ms grace window
killProcessTreeGrace(ps, p) ==
  IF ~ps[p].killed THEN SendSignal(ps, p, "SIGKILL") ELSE { ps }

StartInFlight(c) == starts[c].pc \notin {"idle", "returned", "raised"}
StopInFlight(s) == stops[s].pc \notin {"idle", "returned"}
InFlight == (\E c \in StartCalls : StartInFlight(c)) \/ (\E s \in StopCalls : StopInFlight(s))
CallsIssued == Cardinality({c \in StartCalls : starts[c].pc # "idle"})
               + Cardinality({s \in StopCalls : stops[s].pc # "idle"})

IdleStart == [pc |-> "idle", prev |-> 0, auto |-> TRUE, reinstall |-> FALSE]
IdleStop == [pc |-> "idle", prev |-> 0]
\* the value the last completed call returned to its caller
NoReturn == [op |-> "none", call |-> 0, status |-> NoStatus, ok |-> FALSE]
StartReturn(c, i) == [op |-> "start", call |-> c, status |-> toStatus(i), ok |-> TRUE]
StartRaise(c, why) == [op |-> why, call |-> c, status |-> NoStatus, ok |-> FALSE]
StopReturn(s, b) == [op |-> "stop", call |-> s, status |-> NoStatus, ok |-> b]
NoProc == [status |-> "unspawned", killed |-> FALSE, sigs |-> {}]
\* a child whose exit or error event was delivered: no code reads its flags again
GoneProc == [status |-> "gone", killed |-> FALSE, sigs |-> {}]

PreviewInit ==
  /\ inst = [known |-> FALSE, state |-> "stopped", host |-> DEFAULT_HOST, port |-> 0, url |-> 0,
             pid |-> 0, startedAt |-> 0, error |-> NoError, proc |-> 0, logs |-> <<>>,
             exited |-> FALSE]
  /\ procs = [p \in Procs |-> NoProc]
  /\ starts = [c \in StartCalls |-> IdleStart]
  /\ stops = [s \in StopCalls |-> IdleStop]
  /\ chunks = 0
  /\ ret = NoReturn

\* no edit is being applied
NoWrite == [pc |-> "idle", rel |-> <<>>, dest |-> <<>>, err |-> "none"]

\* the state of one applyChanges call
NoApply ==
  [pc |-> "idle", files |-> <<>>, deps |-> <<>>, isNextProject |-> FALSE, k |-> 0,
   writtenFiles |-> <<>>, disk |-> <<>>, probed |-> FALSE, cmd |-> "none",
   blocked |-> <<>>, prod |-> <<>>, dev |-> <<>>, bucket |-> "none", i |-> 0,
   bInstalled |-> <<>>, bSkipped |-> <<>>, installed |-> <<>>, skipped |-> <<>>,
   cmds |-> <<>>, err |-> "none"]

\* no failure reason (null)
NoFailure == [why |-> "none", attempt |-> 0]

\* the auto-fix loop of the renderer is not running
NoFix ==
  [pc |-> "idle", attempt |-> 0, lastFailure |-> NoFailure, autoFixError |-> NoFailure,
   autoFixRequestId |-> 0, autoFixBusy |-> FALSE, requests |-> 0, modelCalls |-> 0,
   healthy |-> FALSE, cancelled |-> FALSE, runtimeError |-> FALSE]

\* no prompt-and-apply run is registered in the main process
NoRun ==
  [pc |-> "idle", id |-> 0, require |-> FALSE, aborted |-> FALSE, abortedRequest |-> FALSE,
   attempt |-> 0, calls |-> 0, responses |-> <<>>, files |-> 0, deps |-> 0,
   applyCalled |-> FALSE, result |-> [appliedFiles |-> 0, installedDependencies |-> 0, cancelled |-> FALSE],
   err |-> "none"]

ApplyIdle ==
  /\ ch = <<>>
  /\ wf = NoWrite
  /\ ap = NoApply

FixIdle ==
  /\ fx = NoFix
  /\ run = NoRun

\* no response is being parsed
NoResult == [summary |-> <<>>, files |-> <<>>, dependencies |-> <<>>]
NoParse ==
  [pc |-> "idle", para |-> <<>>, segs |-> <<>>,
   deps |-> [given |-> FALSE, loose |-> FALSE, names |-> <<>>],
   raw |-> <<>>, out |-> NoResult]

ParseIdle == parser = NoParse

\* no project is being repaired
NoRepair == [pc |-> "idle"]
RepairIdle == rp = NoRepair

\* no line has been appended to the log of the instance
LogIdle == appended = [lines |-> <<>>, calls |-> 0]

\* the design history of the project has not been used
NoHistory == [pc |-> "idle"]
HistoryIdle == dh = NoHistory

Init ==
  /\ PreviewInit
  /\ ApplyIdle
  /\ FixIdle
  /\ LogIdle
  /\ HistoryIdle
  /\ RepairIdle
  /\ ParseIdle

\* ------------------------------------------------------------------------
\* PreviewManagerImpl.start, one action per stretch between two awaits
\* ------------------------------------------------------------------------
\* the call has completed: its locals are dead
Returned(c, i) == [starts EXCEPT ![c] = [IdleStart EXCEPT !.pc = "returned"]]
Raised(c) == [starts EXCEPT ![c] = [IdleStart EXCEPT !.pc = "raised"]]

\* start() after a false result of waitForServerReady
NotReady(c, i) ==
  LET e == TailError("Preview did not become ready", i.logs)
      i2 == [i EXCEPT !.state = "error", !.error = e, !.logs = pushLogLine(i.logs, LINE)]
  IN /\ inst' = i2
     /\ starts' = Returned(c, i2)
     /\ ret' = StartReturn(c, i2)

\* a spawn that keeps a handle that is already set
SpawnAndWait_KeepHandle(c, i0) ==
  LET i == [i0 EXCEPT !.logs = pushLogLine(i0.logs, LINE)]
  IN \E sp \in {"threw", "live", "failed"} :
       IF sp = "threw"
       THEN LET i2 == [i EXCEPT !.state = "error", !.error = PlainError("spawn failed"),
                                !.logs = pushLogLine(i.logs, LINE)]
            IN /\ inst' = i2
               /\ starts' = Returned(c, i2) /\ ret' = StartReturn(c, i2)
               /\ UNCHANGED procs
       ELSE LET i2 == IF i.proc # 0 THEN i
                      ELSE [i EXCEPT !.proc = c, !.pid = IF sp = "live" THEN c ELSE 0]
            IN /\ procs' = [procs EXCEPT ![c].status = sp]
               /\ IF i2.exited
                  THEN NotReady(c, i2)
                  ELSE /\ inst' = i2
                       /\ starts' = [starts EXCEPT ![c].pc = "probe"]
                       /\ UNCHANGED ret
\* start() from the spawn up to the first await of waitForServerReady
SpawnAndWait(c, i0) ==
  LET i == [i0 EXCEPT !.logs = pushLogLine(i0.logs, LINE)]
  IN \E sp \in {"threw", "live", "failed"} :
       IF sp = "threw"
       THEN LET i2 == [i EXCEPT !.state = "error", !.error = PlainError("spawn failed"),
                                !.logs = pushLogLine(i.logs, LINE)]
            IN /\ inst' = i2
               /\ starts' = Returned(c, i2) /\ ret' = StartReturn(c, i2)
               /\ UNCHANGED procs
       ELSE LET i2 == [i EXCEPT !.proc = c, !.pid = IF sp = "live" THEN c ELSE 0]
            IN /\ procs' = [procs EXCEPT ![c].status = sp]
               /\ IF i2.exited
                  THEN NotReady(c, i2)
                  ELSE /\ inst' = i2
                       /\ starts' = [starts EXCEPT ![c].pc = "probe"]
                       /\ UNCHANGED ret

\* a failed install that is logged but does not end the call
InstallFailed_GoesOn(c, i) ==
  SpawnAndWait(c, [i EXCEPT !.state = "error", !.error = PlainError("install failed")])
InstallFailed(c, i) ==
  LET i2 == [i EXCEPT !.state = "error", !.error = PlainError("install failed"),
                      !.logs = pushLogLine(i.logs, LINE)]
  IN /\ inst' = i2
     /\ starts' = Returned(c, i2) /\ ret' = StartReturn(c, i2)
     /\ UNCHANGED procs

\* start() returns at once: the instance is running and its handle is live
alreadyRunning_NoGuard(i, ps) == FALSE
alreadyRunning(i, ps) == i.known /\ i.state = "running" /\ i.proc # 0 /\ ~ps[i.proc].killed

StartBegin(c) ==
  /\ starts[c].pc = "idle"
  /\ c > 1 => starts[c - 1].pc # "idle"
  /\ CallsIssued < MaxCalls
  /\ UNCHANGED <<stops, chunks>>
  /\ IF alreadyRunning(inst, procs)
     THEN /\ starts' = Returned(c, inst) /\ ret' = StartReturn(c, inst)
          /\ UNCHANGED <<inst, procs>>
     ELSE \E hasPkg \in BOOLEAN, auto \in BOOLEAN :
            LET i1 == [inst EXCEPT !.known = TRUE, !.state = "starting", !.host = DEFAULT_HOST,
                                   !.error = NoError, !.startedAt = c, !.exited = FALSE,
                                   !.logs = pushLogLine(inst.logs, LINE)]
            IN IF ~hasPkg
               THEN LET i2 == [i1 EXCEPT !.state = "error", !.error = PlainError("No package.json"),
                                         !.logs = pushLogLine(i1.logs, LINE)]
                    IN /\ inst' = i2
                       /\ starts' = Returned(c, i2) /\ ret' = StartReturn(c, i2)
                       /\ UNCHANGED procs
               ELSE IF i1.proc # 0 /\ ~procs[i1.proc].killed
                    THEN /\ inst' = [i1 EXCEPT !.proc = 0, !.pid = 0]
                         /\ \E ps \in killProcessTreeBegin(procs, i1.proc) : procs' = ps
                         /\ starts' = [starts EXCEPT ![c].pc = "killwait", ![c].prev = i1.proc,
                                                     ![c].auto = auto]
                         /\ UNCHANGED ret
                    ELSE /\ inst' = i1
                         /\ starts' = [starts EXCEPT ![c].pc = "port", ![c].auto = auto]
                         /\ UNCHANGED <<procs, ret>>

StartKillGrace(c) ==
  /\ starts[c].pc = "killwait"
  /\ \E ps \in killProcessTreeGrace(procs, starts[c].prev) : procs' = ps
  /\ starts' = [starts EXCEPT ![c].pc = "port"]
  /\ UNCHANGED <<inst, stops, chunks, ret>>

\* findFreePort resolves with a port or rejects
StartPort(c) ==
  /\ starts[c].pc = "port"
  /\ \/ /\ starts' = Raised(c)
        /\ ret' = StartRaise(c, "start raised: no free port")
        /\ UNCHANGED inst
     \/ \E port \in Ports :
          \* the first free port from the preferred one (inst.port ?? 3000) on
          /\ port >= (IF inst.port # 0 THEN inst.port ELSE DEFAULT_PORT)
          /\ inst' = [inst EXCEPT !.port = port, !.url = port]
          /\ starts' = [starts EXCEPT ![c].pc = "pm"]
          /\ UNCHANGED ret
  /\ UNCHANGED <<procs, stops, chunks>>

\* detectPackageManager resolves with a package manager or throws
StartPm(c) ==
  /\ starts[c].pc = "pm"
  /\ \/ /\ starts' = Raised(c)
        /\ ret' = StartRaise(c, "start raised: no package manager")
        /\ UNCHANGED inst
     \/ /\ inst' = [inst EXCEPT !.logs = pushLogLine(inst.logs, LINE)]
        /\ starts' = [starts EXCEPT ![c].pc = "repair"]
        /\ UNCHANGED ret
  /\ UNCHANGED <<procs, stops, chunks>>

\* repairProjectForPreview resolves (with or without reinstallDeps) or throws
StartRepair(c) ==
  /\ starts[c].pc = "repair"
  /\ UNCHANGED <<stops, chunks>>
  /\ \E out \in {"clean", "reinstall", "threw"} :
       LET i == CASE out = "clean" -> inst
                  [] out = "reinstall" -> [inst EXCEPT !.logs = pushLogLine(inst.logs, LINE)]
                  [] out = "threw" -> [inst EXCEPT !.logs = pushLogLine(inst.logs, LINE)]
       IN IF starts[c].auto
          THEN /\ inst' = i
               /\ starts' = [starts EXCEPT ![c].pc = "deps", ![c].reinstall = (out = "reinstall")]
               /\ UNCHANGED <<procs, ret>>
          ELSE SpawnAndWait(c, i)

\* ensureDeps: nothing to do, install succeeded, or install failed
StartDeps(c) ==
  /\ starts[c].pc = "deps"
  /\ UNCHANGED <<stops, chunks>>
  /\ \E out \in {"noop", "ok", "fail"} :
       LET i == IF out = "noop" THEN inst
                ELSE [inst EXCEPT !.logs = pushLogLine(pushLogLine(inst.logs, LINE), LINE)]
       IN IF out = "fail"
          THEN InstallFailed(c, [i EXCEPT !.logs = pushLogLine(i.logs, LINE)])
          ELSE IF starts[c].reinstall
               THEN /\ inst' = [i EXCEPT !.logs = pushLogLine(pushLogLine(i.logs, LINE), LINE)]
                    /\ starts' = [starts EXCEPT ![c].pc = "reinstall"]
                    /\ UNCHANGED <<procs, ret>>
               ELSE SpawnAndWait(c, i)

StartReinstall(c) ==
  /\ starts[c].pc = "reinstall"
  /\ UNCHANGED <<stops, chunks>>
  /\ \E ok \in BOOLEAN :
       IF ok THEN SpawnAndWait(c, inst)
       ELSE InstallFailed(c, [inst EXCEPT !.logs = pushLogLine(inst.logs, LINE)])

\* httpProbe resolves inside waitForServerReady
StartProbe(c) ==
  /\ starts[c].pc = "probe"
  /\ UNCHANGED <<procs, stops, chunks>>
  /\ \E ok \in BOOLEAN :
       IF ok
       THEN LET i2 == [inst EXCEPT !.state = "running",
                                   !.logs = pushLogLine(inst.logs, LINE)]
            IN /\ inst' = i2
               /\ starts' = Returned(c, i2) /\ ret' = StartReturn(c, i2)
       ELSE /\ starts' = [starts EXCEPT ![c].pc = "sleep"]
            /\ UNCHANGED <<inst, ret>>

\* the 650 ms timer of waitForServerReady fires: loop test, exited test, next probe
StartSleep(c) ==
  /\ starts[c].pc = "sleep"
  /\ UNCHANGED <<procs, stops, chunks>>
  /\ \E timeout \in BOOLEAN :
       IF timeout THEN NotReady(c, inst)
       ELSE IF inst.exited THEN NotReady(c, inst)
       ELSE /\ starts' = [starts EXCEPT ![c].pc = "probe"]
            /\ UNCHANGED <<inst, ret>>

\* ------------------------------------------------------------------------
\* Events of a spawned child: proc.once("exit"), proc.once("error"), data
\* ------------------------------------------------------------------------
CleanExit_OnlyZero(k) == k = "code0"
CleanExit(k) == k \in {"code0", "SIGTERM", "SIGINT"}

exitHandler_Unkeyed(i, p, k) ==
  LET i1 == [i EXCEPT !.exited = TRUE, !.proc = 0, !.pid = 0]
  IN IF i1.state = "starting"
     THEN [i1 EXCEPT !.state = "error",
                     !.error = TailError("Preview server exited before it became ready", i1.logs),
                     !.logs = pushLogLine(i1.logs, LINE)]
     ELSE IF CleanExit(k)
     THEN [i1 EXCEPT !.state = "stopped", !.error = NoError, !.logs = pushLogLine(i1.logs, LINE)]
     ELSE [i1 EXCEPT !.state = "error", !.error = TailError("Preview server crashed", i1.logs),
                     !.logs = pushLogLine(i1.logs, LINE)]

exitHandler(i, p, k) ==
  IF i.proc # p THEN i
  ELSE LET i1 == [i EXCEPT !.exited = TRUE, !.proc = 0, !.pid = 0]
       IN IF i1.state = "starting"
          THEN [i1 EXCEPT !.state = "error",
                          !.error = TailError("Preview server exited before it became ready", i1.logs),
                          !.logs = pushLogLine(i1.logs, LINE)]
          ELSE IF CleanExit(k)
          THEN [i1 EXCEPT !.state = "stopped", !.error = NoError,
                          !.logs = pushLogLine(i1.logs, LINE)]
          ELSE [i1 EXCEPT !.state = "error",
                          !.error = TailError("Preview server crashed", i1.logs),
                          !.logs = pushLogLine(i1.logs, LINE)]

errorHandler(i, p) ==
  IF i.proc # p THEN i
  ELSE [i EXCEPT !.exited = TRUE, !.proc = 0, !.pid = 0, !.state = "error",
                 !.error = PlainError("spawn error"),
                 !.logs = pushLogLine(i.logs, LINE)]

ProcExit(p, k) ==
  /\ procs[p].status = "live"
  /\ procs' = [procs EXCEPT ![p] = GoneProc]
  /\ inst' = exitHandler(inst, p, k)
  /\ UNCHANGED <<starts, stops, chunks, ret>>

\* a child that could not be spawned emits "error" and no "exit"
ProcError(p) ==
  /\ procs[p].status = "failed"
  /\ procs' = [procs EXCEPT ![p] = GoneProc]
  /\ inst' = errorHandler(inst, p)
  /\ UNCHANGED <<starts, stops, chunks, ret>>

\* a stdout/stderr chunk of one line (the data handlers are not keyed to the handle)
ProcOutput(p) ==
  /\ procs[p].status = "live"
  /\ chunks < MaxChunks
  /\ chunks' = chunks + 1
  /\ inst' = [inst EXCEPT !.logs = pushLogLine(inst.logs, LINE)]
  /\ UNCHANGED <<procs, starts, stops, ret>>

\* ------------------------------------------------------------------------
\* PreviewManagerImpl.stop
\* ------------------------------------------------------------------------
stopFinish(i) == [i EXCEPT !.state = "stopped", !.error = NoError,
                           !.logs = pushLogLine(i.logs, LINE)]

StopBegin(s) ==
  /\ stops[s].pc = "idle"
  /\ s > 1 => stops[s - 1].pc # "idle"
  /\ CallsIssued < MaxCalls
  /\ UNCHANGED <<starts, chunks>>
  /\ IF ~inst.known
     THEN /\ stops' = [stops EXCEPT ![s].pc = "returned"]
          /\ ret' = StopReturn(s, FALSE)
          /\ UNCHANGED <<inst, procs>>
     ELSE LET p == inst.proc
              i1 == [inst EXCEPT !.proc = 0, !.pid = 0]
          IN IF p # 0 /\ ~procs[p].killed
             THEN /\ inst' = i1
                  /\ \E ps \in killProcessTreeBegin(procs, p) : procs' = ps
                  /\ stops' = [stops EXCEPT ![s].pc = "killwait", ![s].prev = p]
                  /\ UNCHANGED ret
             ELSE /\ inst' = stopFinish(i1)
                  /\ stops' = [stops EXCEPT ![s].pc = "returned"]
                  /\ ret' = StopReturn(s, TRUE)
                  /\ UNCHANGED procs

StopKillGrace(s) ==
  /\ stops[s].pc = "killwait"
  /\ \E ps \in killProcessTreeGrace(procs, stops[s].prev) : procs' = ps
  /\ inst' = stopFinish(inst)
  /\ stops' = [stops EXCEPT ![s] = [IdleStop EXCEPT !.pc = "returned"]]
  /\ ret' = StopReturn(s, TRUE)
  /\ UNCHANGED <<starts, chunks>>

\* the steps of calls in flight and the events of the children
Steps ==
  \/ \E c \in StartCalls : StartKillGrace(c)
  \/ \E c \in StartCalls : StartPort(c)
  \/ \E c \in StartCalls : StartPm(c)
  \/ \E c \in StartCalls : StartRepair(c)
  \/ \E c \in StartCalls : StartDeps(c)
  \/ \E c \in StartCalls : StartReinstall(c)
  \/ \E c \in StartCalls : StartProbe(c)
  \/ \E c \in StartCalls : StartSleep(c)
  \/ \E p \in Procs, k \in ExitKinds : ProcExit(p, k)
  \/ \E p \in Procs : ProcError(p)
  \/ \E p \in Procs : ProcOutput(p)
  \/ \E s \in StopCalls : StopKillGrace(s)

\* the caller issues start/stop one at a time (the renderer awaits each call)
Next ==
  \/ \E c \in StartCalls : ~InFlight /\ StartBegin(c) /\ UNCHANGED <<applyVars, fixVars, parseVars, repairVars, logVars, historyVars>>
  \/ \E s \in StopCalls : ~InFlight /\ StopBegin(s) /\ UNCHANGED <<applyVars, fixVars, parseVars, repairVars, logVars, historyVars>>
  \/ Steps /\ UNCHANGED <<applyVars, fixVars, parseVars, repairVars, logVars, historyVars>>

Spec == Init /\ [][Next]_vars

\* calls may overlap (a fire-and-forget stop, two start requests)
NextOverlap ==
  \/ \E c \in StartCalls : StartBegin(c) /\ UNCHANGED <<applyVars, fixVars, parseVars, repairVars, logVars, historyVars>>
  \/ \E s \in StopCalls : StopBegin(s) /\ UNCHANGED <<applyVars, fixVars, parseVars, repairVars, logVars, historyVars>>
  \/ Steps /\ UNCHANGED <<applyVars, fixVars, parseVars, repairVars, logVars, historyVars>>

SpecOverlap == Init /\ [][NextOverlap]_vars

\* ------------------------------------------------------------------------
\* Change Applier: path containment (packages/codegen/src/apply.ts).
\* A string is a sequence of one-character strings; paths follow node's
\* posix path module.
\* ------------------------------------------------------------------------
MaxTokens == 4

SLASH == "/"
DotDot == <<".", ".">>
\* the project directory handed to applyChanges, and the process's working directory
ProjectDir == <<"/", "p">>
Cwd == <<"/">>

\* the pieces a file path of an edit is made of
PathTokens ==
  { <<"/">>, <<".", ".">>, <<".", ".", "/">>, <<".">>, <<"a">>, <<"/", "p", "/">>,
    <<":">>, <<"1">>, <<"'">>, <<"-", " ">>, <<"\\">> }

RECURSIVE Flatten(_)
Flatten(ts) == IF ts = <<>> THEN <<>> ELSE Head(ts) \o Flatten(Tail(ts))

PathInputs ==
  { Flatten(ts) : ts \in UNION { [1..n -> PathTokens] : n \in 0..MaxTokens } }

IsSpace(x) == x \in {" ", "\t", "\n", "\r"}
IsDigit(x) == x \in {"0", "1", "2", "3", "4", "5", "6", "7", "8", "9"}
\* ['"`]: the backquote cannot be written as a character here and is not in
\* the alphabet of PathTokens
IsQuote(x) == x \in {"'", "\""}
IsLetter(x) == x \in {"a", "p", "A", "C", "c"}

StartsWith(s, pre) == Len(s) >= Len(pre) /\ SubSeq(s, 1, Len(pre)) = pre
Includes(s, sub) == \E i \in 1..(Len(s) - Len(sub) + 1) : SubSeq(s, i, i + Len(sub) - 1) = sub
DropFirst(s, n) == SubSeq(s, n + 1, Len(s))

\* String.prototype.replace(/\\/g, "/")
ReplaceBackslash(s) == [i \in 1..Len(s) |-> IF s[i] = "\\" THEN SLASH ELSE s[i]]

RECURSIVE TrimStart(_)
TrimStart(s) == IF s # <<>> /\ IsSpace(s[1]) THEN TrimStart(Tail(s)) ELSE s
RECURSIVE TrimEnd(_)
TrimEnd(s) == IF s # <<>> /\ IsSpace(s[Len(s)]) THEN TrimEnd(SubSeq(s, 1, Len(s) - 1)) ELSE s
Trim(s) == TrimEnd(TrimStart(s))

\* s.replace(/^[-*]\s+/, "")
StripBullet(s) ==
  IF Len(s) >= 2 /\ s[1] \in {"-", "*"} /\ IsSpace(s[2]) THEN TrimStart(Tail(s)) ELSE s

\* s.replace(/^['"`]|['"`]$/g, "")
StripQuotes(s) ==
  LET lead == s # <<>> /\ IsQuote(s[1])
      trail == Len(s) >= 2 /\ IsQuote(s[Len(s)])
      s1 == IF trail THEN SubSeq(s, 1, Len(s) - 1) ELSE s
  IN IF lead THEN Tail(s1) ELSE s1

AllDigits(s) == s # <<>> /\ \A i \in 1..Len(s) : IsDigit(s[i])
\* does s match \d+(?::\d+)?$ as a whole
IsLineCol(s) ==
  \/ AllDigits(s)
  \/ \E j \in 1..Len(s) : s[j] = ":" /\ AllDigits(SubSeq(s, 1, j - 1)) /\ AllDigits(DropFirst(s, j))

\* s.replace(/:(\d+)(?::\d+)?$/, ""): the leftmost match is removed
StripLineCol(s) ==
  LET starts_ == { i \in 1..Len(s) : s[i] = ":" /\ IsLineCol(DropFirst(s, i)) }
  IN IF starts_ = {} THEN s
     ELSE LET i == CHOOSE x \in starts_ : \A y \in starts_ : x <= y
          IN SubSeq(s, 1, i - 1)

\* s.replace(/^\.\//, "")
StripDotSlash(s) == IF StartsWith(s, <<".", "/">>) THEN DropFirst(s, 2) ELSE s

normalizePathInput(raw) ==
  StripDotSlash(StripLineCol(StripQuotes(StripBullet(Trim(ReplaceBackslash(raw))))))

\* String.prototype.split("/")
RECURSIVE SplitSlash(_)
SplitSlash(s) ==
  IF \A i \in 1..Len(s) : s[i] # SLASH THEN << s >>
  ELSE LET i == CHOOSE x \in 1..Len(s) : s[x] = SLASH /\ \A y \in 1..(x - 1) : s[y] # SLASH
       IN << SubSeq(s, 1, i - 1) >> \o SplitSlash(DropFirst(s, i))

RECURSIVE JoinSlash(_)
JoinSlash(segs) ==
  IF segs = <<>> THEN <<>>
  ELSE IF Len(segs) = 1 THEN segs[1]
  ELSE segs[1] \o <<SLASH>> \o JoinSlash(Tail(segs))

\* normalizeString of node's path module, on the segments of a path
RECURSIVE NormSegs(_, _, _)
NormSegs(segs, acc, allowAboveRoot) ==
  IF segs = <<>> THEN acc
  ELSE LET h == Head(segs)
           t == Tail(segs)
       IN IF h = <<>> \/ h = <<".">> THEN NormSegs(t, acc, allowAboveRoot)
          ELSE IF h = DotDot
          THEN IF Len(acc) > 0 /\ acc[Len(acc)] # DotDot
               THEN NormSegs(t, SubSeq(acc, 1, Len(acc) - 1), allowAboveRoot)
               ELSE IF allowAboveRoot THEN NormSegs(t, Append(acc, DotDot), allowAboveRoot)
               ELSE NormSegs(t, acc, allowAboveRoot)
          ELSE NormSegs(t, Append(acc, h), allowAboveRoot)

isAbsolute(s) == s # <<>> /\ s[1] = SLASH

\* path.posix.normalize
posixNormalize(s) ==
  IF s = <<>> THEN <<".">>
  ELSE LET abs == isAbsolute(s)
           trail == s[Len(s)] = SLASH
           body == JoinSlash(NormSegs(SplitSlash(s), <<>>, ~abs))
       IN IF body = <<>>
          THEN IF abs THEN <<SLASH>> ELSE IF trail THEN <<".", SLASH>> ELSE <<".">>
          ELSE (IF abs THEN <<SLASH>> ELSE <<>>) \o body \o (IF trail THEN <<SLASH>> ELSE <<>>)

\* path.resolve of one argument
pathResolve(s) ==
  LET full == IF isAbsolute(s) THEN s ELSE Cwd \o <<SLASH>> \o s
  IN <<SLASH>> \o JoinSlash(NormSegs(SplitSlash(full), <<>>, FALSE))

RECURSIVE CommonPrefixLen(_, _)
CommonPrefixLen(a, b) ==
  IF a # <<>> /\ b # <<>> /\ Head(a) = Head(b) THEN 1 + CommonPrefixLen(Tail(a), Tail(b)) ELSE 0

\* path.relative of two resolved paths
pathRelative(from, to) ==
  LET fs == NormSegs(SplitSlash(from), <<>>, FALSE)
      ts == NormSegs(SplitSlash(to), <<>>, FALSE)
      k == CommonPrefixLen(fs, ts)
  IN JoinSlash([i \in 1..(Len(fs) - k) |-> DotDot] \o DropFirst(ts, k))

\* path.join(projectDir, ...segments)
pathJoin(dir, segs) ==
  LET parts == SelectSeq(<< dir >> \o segs, LAMBDA x : x # <<>>)
  IN posixNormalize(JoinSlash(parts))

Accepted(rel) == [ok |-> TRUE, rel |-> rel, err |-> "none"]
Rejected(why) == [ok |-> FALSE, rel |-> <<>>, err |-> why]

\* the test of the normalized relative path
traversal_InteriorOnly(norm) == Includes(norm, <<SLASH, ".", ".", SLASH>>)
traversal(norm) == StartsWith(norm, DotDot) \/ Includes(norm, <<SLASH, ".", ".", SLASH>>)

\* the test of an absolute path made relative to the project
outsideProject_NoCheck(rel) == rel = <<>>
outsideProject(rel) == rel = <<>> \/ StartsWith(rel, DotDot) \/ Includes(rel, <<".", ".", SLASH>>)

IsDrive(s) == Len(s) >= 3 /\ IsLetter(s[1]) /\ s[2] = ":" /\ s[3] = SLASH

RECURSIVE sanitizeRelative(_, _)
sanitizeRelative(projectDir, p) ==
  LET cleaned == normalizePathInput(p)
  IN IF cleaned = <<>> THEN Rejected("Empty file path from AI")
     ELSE IF isAbsolute(cleaned) \/ IsDrive(cleaned)
     THEN LET rel == ReplaceBackslash(pathRelative(pathResolve(projectDir), pathResolve(cleaned)))
          IN IF outsideProject(rel) THEN Rejected("Absolute path not allowed (outside project)")
             ELSE sanitizeRelative(projectDir, rel)
     ELSE LET norm == posixNormalize(cleaned)
          IN IF traversal(norm) THEN Rejected("Path traversal not allowed") ELSE Accepted(norm)

\* ---- writeFile: one edit of the batch that applyChanges walks through
WriteReturn(rel, dest) == [pc |-> "written", rel |-> rel, dest |-> dest, err |-> "none"]
WriteRaise(why) == [pc |-> "raised", rel |-> <<>>, dest |-> <<>>, err |-> why]

\* const rel = sanitizeRelative(projectDir, ch.path)
writeFileSanitize ==
  /\ wf.pc = "call"
  /\ LET r == sanitizeRelative(ProjectDir, ch)
     IN wf' = IF r.ok THEN [wf EXCEPT !.pc = "mkdir", !.rel = r.rel] ELSE WriteRaise(r.err)
  /\ UNCHANGED ch

\* dest = path.join(projectDir, ...rel.split("/")); mkdir; fs.writeFile(dest).
\* The file system may refuse the write; it always refuses to write a file
\* over the project directory itself.
writeFileWrite ==
  /\ wf.pc = "mkdir"
  /\ LET dest == pathJoin(ProjectDir, SplitSlash(wf.rel))
     IN \E fsOk \in BOOLEAN :
          wf' = IF fsOk /\ dest # pathResolve(ProjectDir)
                THEN WriteReturn(wf.rel, dest)
                ELSE WriteRaise("fs")
  /\ UNCHANGED ch

InitWrite ==
  /\ PreviewInit
  /\ ch \in PathInputs
  /\ wf = [pc |-> "call", rel |-> <<>>, dest |-> <<>>, err |-> "none"]
  /\ ap = NoApply
  /\ FixIdle
  /\ LogIdle
  /\ HistoryIdle
  /\ RepairIdle
  /\ ParseIdle

NextWrite ==
  \/ writeFileSanitize /\ UNCHANGED <<previewVars, ap, fixVars, parseVars, repairVars, logVars, historyVars>>
  \/ writeFileWrite /\ UNCHANGED <<previewVars, ap, fixVars, parseVars, repairVars, logVars, historyVars>>

SpecWrite == InitWrite /\ [][NextWrite]_vars


\* ------------------------------------------------------------------------
\* Properties of the Preview Supervisor
\* ------------------------------------------------------------------------
LiveUnsignalled == { p \in Procs : procs[p].status = "live" /\ procs[p].sigs = {} }

\* C1: with start/stop calls issued one at a time, at most one spawned child
\* is live and unsignalled, and a child is spawned only when the instance
\* holds no handle and every child still live has been sent SIGTERM and,
\* unless proc.killed was set, SIGKILL after the grace window.
C1_OneLiveChild ==
  /\ [](Cardinality(LiveUnsignalled) <= 1)
  /\ [][\A c \in Procs :
          (procs[c].status = "unspawned" /\ procs'[c].status # "unspawned")
          => /\ inst.proc = 0
             /\ \A q \in Procs :
                  procs[q].status = "live"
                  => /\ "SIGTERM" \in procs[q].sigs
                     /\ (procs[q].killed \/ "SIGKILL" \in procs[q].sigs)]_vars

\* a second child was spawned while the first, signalled, is still alive
C1_Witness ==
  /\ procs[1].status = "live" /\ "SIGTERM" \in procs[1].sigs
  /\ procs[2].status = "live" /\ inst.proc = 2

\* C2: start() on a running instance whose handle is live returns the current
\* status and changes neither the instance nor any child process.
C2_StartIdempotent ==
  [][\A c \in StartCalls :
       (StartBegin(c) /\ inst.state = "running" /\ inst.proc # 0 /\ ~procs[inst.proc].killed)
       => /\ inst' = inst
          /\ procs' = procs
          /\ starts'[c].pc = "returned"
          /\ ret' = StartReturn(c, inst)]_vars

\* the second start() returned the running status of the first child
C2_Witness ==
  /\ ret = StartReturn(2, inst)
  /\ inst.state = "running" /\ inst.proc = 1 /\ inst.startedAt = 1
  /\ procs[1].status = "live" /\ procs[2].status = "unspawned"

AllowedTransitions ==
  { <<"stopped", "starting">>, <<"error", "starting">>, <<"starting", "running">>,
    <<"starting", "error">>, <<"running", "error">>, <<"running", "stopped">> }

\* C3: the state starts as stopped and every change of it is one of the listed
\* transitions or a change to stopped made by stop(); a process exit never
\* moves the instance from error to stopped. (The first stretch of start()
\* assigns starting and then, without a manifest, error: both assignments
\* are judged.)
C3_Transitions ==
  /\ inst.state = "stopped"
  /\ [][inst'.state # inst.state
        => \/ <<inst.state, inst'.state>> \in AllowedTransitions
           \/ /\ inst'.state = "stopped"
              /\ \E s \in StopCalls : StopBegin(s) \/ StopKillGrace(s)
           \/ /\ \E c \in StartCalls : StartBegin(c)
              /\ <<inst.state, "starting">> \in AllowedTransitions
              /\ <<"starting", inst'.state>> \in AllowedTransitions]_vars

\* C4: a start() that spawned the child and saw the readiness wait fail (the
\* timeout passed, or the child exited or errored while starting) returns
\* state error with an error message that carries the log tail.
C4_FailedStartIsError ==
  [][\A c \in StartCalls :
       (/\ starts[c].pc \in {"probe", "sleep"}
        /\ starts'[c].pc = "returned"
        /\ (starts[c].pc = "sleep" \/ inst.exited))
       => /\ ret'.status.state = "error"
          /\ ret'.status.error.hasLogs
          /\ inst'.state = "error"]_vars

\* C5: when the current child of a running instance exits, the instance
\* becomes stopped without error on code 0, SIGTERM or SIGINT, and error with
\* the last lines of the log otherwise.
C5_ExitWhileRunning ==
  [][\A p \in Procs, k \in ExitKinds :
       (ProcExit(p, k) /\ inst.proc = p /\ inst.state = "running")
       => IF k \in {"code0", "SIGTERM", "SIGINT"}
          THEN inst'.state = "stopped" /\ inst'.error = NoError
          ELSE /\ inst'.state = "error"
               /\ inst'.error.hasLogs
               /\ inst'.error.lastLogs = LastN(inst.logs, TAIL_LINES)]_vars

\* start() returned running and the child then crashed
C5_Witness ==
  /\ ret.op = "start" /\ ret.status.state = "running" /\ inst.startedAt = ret.call
  /\ inst.state = "error" /\ inst.error.msg = "Preview server crashed"

\* a running child exited cleanly
C5_WitnessClean ==
  /\ ret.op = "start" /\ ret.status.state = "running" /\ inst.startedAt = ret.call
  /\ inst.state = "stopped" /\ procs[ret.call].status = "gone"

\* C6: stop() on a known instance leaves it stopped with no handle, no pid and
\* no error, and it stays stopped until a start() call begins.
C6_StopIsFinal ==
  [][/\ \A s \in StopCalls :
          (inst.known /\ stops[s].pc # "returned" /\ stops'[s].pc = "returned")
          => /\ inst'.state = "stopped"
             /\ inst'.proc = 0 /\ inst'.pid = 0 /\ inst'.error = NoError
     /\ (ret.op = "stop" /\ ret.ok /\ inst.state = "stopped" /\ inst'.state # "stopped")
          => \E c \in StartCalls : StartBegin(c)]_vars

\* C7: an exit or error event of a child that is not the instance's current
\* handle leaves state, error, pid, handle and the exited flag as they were.
C7_StaleEventsIgnored ==
  [][\A p \in Procs :
       (((\E k \in ExitKinds : ProcExit(p, k)) \/ ProcError(p)) /\ inst.proc # p)
       => /\ inst'.state = inst.state
          /\ inst'.error = inst.error
          /\ inst'.pid = inst.pid
          /\ inst'.proc = inst.proc
          /\ inst'.exited = inst.exited]_vars

\* the exit of the first child was delivered after its handle had been cleared
C7_Witness ==
  /\ procs[1].status = "gone" /\ inst.startedAt = 1 /\ ~inst.exited
  /\ inst.state = "stopped" /\ ret.op = "stop"

\* C8: start() never raises: every failure ends as a returned status whose
\* state is error and whose error field holds a message.
C8_StartNeverRaises ==
  /\ \A c \in StartCalls : starts[c].pc # "raised"
  /\ ret.op \notin {"start raised: no free port", "start raised: no package manager"}
  /\ (ret.op = "start" /\ ret.status.state = "error") => ret.status.error.msg # "undefined"

\* ------------------------------------------------------------------------
\* Change Applier: dependencies (packages/codegen/src/apply.ts).
\* A dependency name is a sequence of characters, like a path.
\* ------------------------------------------------------------------------
EndsWith(s, suf) == Len(s) >= Len(suf) /\ SubSeq(s, Len(s) - Len(suf) + 1, Len(s)) = suf

UpperCase == <<"A", "B", "C", "D", "E", "F", "G", "H", "I", "J", "K", "L", "M",
               "N", "O", "P", "Q", "R", "S", "T", "U", "V", "W", "X", "Y", "Z">>
LowerCase == <<"a", "b", "c", "d", "e", "f", "g", "h", "i", "j", "k", "l", "m",
               "n", "o", "p", "q", "r", "s", "t", "u", "v", "w", "x", "y", "z">>
\* String.prototype.toLowerCase
toLowerCase(s) ==
  [i \in 1..Len(s) |->
     IF \E j \in 1..26 : UpperCase[j] = s[i]
     THEN LowerCase[CHOOSE j \in 1..26 : UpperCase[j] = s[i]]
     ELSE s[i]]

\* the elements of a list without repetition, in order of first occurrence
\* (Array.from(new Set(list)))
RECURSIVE Dedupe(_)
Dedupe(list) ==
  IF list = <<>> THEN <<>>
  ELSE LET front == Dedupe(SubSeq(list, 1, Len(list) - 1))
           last == list[Len(list)]
       IN IF \E i \in 1..Len(front) : front[i] = last THEN front ELSE Append(front, last)

Elems(list) == { list[i] : i \in 1..Len(list) }

denyExact ==
  { <<"@", "t", "a", "i", "l", "w", "i", "n", "d", "c", "s", "s", "/", "b", "a", "s", "e">>,
    <<"@", "t", "a", "i", "l", "w", "i", "n", "d", "c", "s", "s", "/", "c", "o", "m", "p", "o", "n", "e", "n", "t", "s">>,
    <<"@", "t", "a", "i", "l", "w", "i", "n", "d", "c", "s", "s", "/", "u", "t", "i", "l", "i", "t", "i", "e", "s">>,
    <<"t", "a", "i", "l", "w", "i", "n", "d", "c", "s", "s", "/", "b", "a", "s", "e">>,
    <<"t", "a", "i", "l", "w", "i", "n", "d", "c", "s", "s", "/", "c", "o", "m", "p", "o", "n", "e", "n", "t", "s">>,
    <<"t", "a", "i", "l", "w", "i", "n", "d", "c", "s", "s", "/", "u", "t", "i", "l", "i", "t", "i", "e", "s">>,
    <<"@", "t", "a", "i", "l", "w", "i", "n", "d", "/", "b", "a", "s", "e">>,
    <<"@", "t", "a", "i", "l", "w", "i", "n", "d", "/", "c", "o", "m", "p", "o", "n", "e", "n", "t", "s">>,
    <<"@", "t", "a", "i", "l", "w", "i", "n", "d", "/", "u", "t", "i", "l", "i", "t", "i", "e", "s">>,
    <<"s", "h", "a", "d", "c", "n", "/", "u", "i">>,
    <<"s", "h", "a", "d", "c", "n", "-", "u", "i">>,
    <<"s", "h", "a", "d", "c", "n">>,
    <<"u", "i">>,
    <<"@", "s", "h", "a", "d", "c", "n", "/", "u", "i">>,
    <<"@", "v", "e", "r", "c", "e", "l", "/", "p", "r", "e", "a", "c", "t">>,
    <<"n", "e", "x", "t", "/", "l", "i", "n", "k">>,
    <<"n", "e", "x", "t", "/", "i", "m", "a", "g", "e">>,
    <<"n", "e", "x", "t", "/", "n", "a", "v", "i", "g", "a", "t", "i", "o", "n">>,
    <<"n", "e", "x", "t", "/", "r", "o", "u", "t", "e", "r">>,
    <<"n", "e", "x", "t", "/", "h", "e", "a", "d">>,
    <<"n", "e", "x", "t", "/", "s", "e", "r", "v", "e", "r">>,
    <<"@", "n", "e", "x", "t", "/", "n", "a", "v", "i", "g", "a", "t", "i", "o", "n">> }

tailwindAllow ==
  { <<"@", "t", "a", "i", "l", "w", "i", "n", "d", "c", "s", "s", "/", "p", "o", "s", "t", "c", "s", "s">>,
    <<"@", "t", "a", "i", "l", "w", "i", "n", "d", "c", "s", "s", "/", "n", "o", "d", "e">>,
    <<"@", "t", "a", "i", "l", "w", "i", "n", "d", "c", "s", "s", "/", "o", "x", "i", "d", "e">> }

\* the verdict of filterInvalidDeps on one trimmed, non-empty name
\* name === "react-router" || name.startsWith("react-router@"), and the
\* same for react-router-dom
isReactRouter_ExactOnly(name) ==
  name \in { <<"r", "e", "a", "c", "t", "-", "r", "o", "u", "t", "e", "r">>, <<"r", "e", "a", "c", "t", "-", "r", "o", "u", "t", "e", "r", "-", "d", "o", "m">> }
isReactRouter(name) ==
  \/ name = <<"r", "e", "a", "c", "t", "-", "r", "o", "u", "t", "e", "r">> \/ StartsWith(name, <<"r", "e", "a", "c", "t", "-", "r", "o", "u", "t", "e", "r", "@">>)
  \/ name = <<"r", "e", "a", "c", "t", "-", "r", "o", "u", "t", "e", "r", "-", "d", "o", "m">> \/ StartsWith(name, <<"r", "e", "a", "c", "t", "-", "r", "o", "u", "t", "e", "r", "-", "d", "o", "m", "@">>)

invalidDep_Never(name, isNextProject) == FALSE
invalidDep(name, isNextProject) ==
  LET lower == toLowerCase(name)
  IN \/ \E i \in 1..Len(name) : IsSpace(name[i])
     \/ StartsWith(lower, <<"@", "n", "e", "x", "t", "/">>)
     \/ StartsWith(lower, <<"g", "i", "t", "+">>)
     \/ StartsWith(lower, <<"g", "i", "t", ":", "/", "/">>)
     \/ StartsWith(lower, <<"s", "s", "h", ":", "/", "/">>)
     \/ StartsWith(lower, <<"g", "i", "t", "h", "u", "b", ":">>)
     \/ Includes(lower, <<"g", "i", "t", "h", "u", "b", ".", "c", "o", "m", "/">>)
     \/ EndsWith(lower, <<".", "g", "i", "t">>)
     \/ name \in denyExact
     \/ name = <<"@", "v", "e", "r", "c", "e", "l", "/", "p", "r", "e", "a", "c", "t">> \/ StartsWith(name, <<"@", "v", "e", "r", "c", "e", "l", "/", "p", "r", "e", "a", "c", "t", "@">>)
     \/ (isNextProject /\ isReactRouter(name))
     \/ (Includes(name, <<SLASH>>) /\ ~StartsWith(name, <<"@">>))
     \/ (StartsWith(name, <<"@", "t", "a", "i", "l", "w", "i", "n", "d", "c", "s", "s", "/">>) /\ name \notin tailwindAllow)

trimAll(list) == [i \in 1..Len(list) |-> Trim(list[i])]
nonEmpty(list) == SelectSeq(list, LAMBDA d : d # <<>>)

filterInvalidDeps_NewestFirst(deps, isNextProject) ==
  LET kept == SelectSeq(trimAll(deps), LAMBDA name : name # <<>> /\ ~invalidDep(name, isNextProject))
  IN [i \in 1..Len(kept) |-> kept[Len(kept) + 1 - i]]
filterInvalidDeps(deps, isNextProject) ==
  SelectSeq(trimAll(deps), LAMBDA name : name # <<>> /\ ~invalidDep(name, isNextProject))

\* ---- applyChanges: the batch of edits, then the dependencies
MaxFiles == 2
MaxDeps == 2

ApplyPaths == { <<"a">>, <<"/", "p", "/", "b">>, <<".", ".", "/", "a">>, <<>> }

Lodash == <<"l", "o", "d", "a", "s", "h">>
NextNavigation == <<"@", "n", "e", "x", "t", "/", "n", "a", "v", "i", "g", "a", "t", "i", "o", "n">>
TypesA == <<"@", "t", "y", "p", "e", "s", "/", "a">>
ReactRouter == <<"r", "e", "a", "c", "t", "-", "r", "o", "u", "t", "e", "r">>
DepNames == { Lodash, <<" ">> \o Lodash, NextNavigation, TypesA, ReactRouter, <<" ">> }

SeqsUpTo(S, n) == UNION { [1..m -> S] : m \in 0..n }

\* lines 317-330 of installDeps
rawDeps(deps) == Dedupe(nonEmpty(trimAll(deps)))
validDeps(deps, isNextProject) == filterInvalidDeps(rawDeps(deps), isNextProject)
blockedDeps_None(deps, isNextProject) == <<>>
blockedDeps(deps, isNextProject) ==
  SelectSeq(rawDeps(deps), LAMBDA d : d \notin Elems(validDeps(deps, isNextProject)))
neededDeps(deps, isNextProject) == Dedupe(nonEmpty(trimAll(validDeps(deps, isNextProject))))
isDevDep(d) == StartsWith(d, <<"@", "t", "y", "p", "e", "s", "/">>)

\* applyChanges returns its ApplyResult
ReturnApply(a) == [a EXCEPT !.pc = "returned"]
RaiseApply(a, why) == [a EXCEPT !.pc = "raised", !.err = why]

\* installBestEffort returns at once for an empty bucket
StartDev(a) ==
  IF a.dev = <<>> THEN ReturnApply(a) ELSE [a EXCEPT !.pc = "batch", !.bucket = "dev"]
StartProd(a) ==
  IF a.prod = <<>> THEN StartDev(a) ELSE [a EXCEPT !.pc = "batch", !.bucket = "prod"]
AfterBucket(a) == IF a.bucket = "prod" THEN StartDev(a) ELSE ReturnApply(a)
BucketPkgs(a) == IF a.bucket = "prod" THEN a.prod ELSE a.dev

\* applyChanges takes the next edit of the batch and calls writeFile
applyNextFile ==
  /\ ap.pc = "files" /\ wf.pc = "idle"
  /\ ap.k <= Len(ap.files)
  /\ ch' = ap.files[ap.k]
  /\ wf' = [pc |-> "call", rel |-> <<>>, dest |-> <<>>, err |-> "none"]
  /\ UNCHANGED ap

\* writeFile returned: writtenFiles.push(rel)
applyFileWritten ==
  /\ ap.pc = "files" /\ wf.pc = "written"
  /\ ap' = [ap EXCEPT !.writtenFiles = Append(@, wf.rel), !.disk = Append(@, wf.dest), !.k = @ + 1]
  /\ wf' = NoWrite
  /\ UNCHANGED ch

\* writeFile threw: the exception leaves applyChanges
applyFileRaised_Continue ==
  /\ ap.pc = "files" /\ wf.pc = "raised"
  /\ ap' = [ap EXCEPT !.k = @ + 1]
  /\ wf' = NoWrite
  /\ UNCHANGED ch
applyFileRaised ==
  /\ ap.pc = "files" /\ wf.pc = "raised"
  /\ ap' = RaiseApply(ap, wf.err)
  /\ wf' = NoWrite
  /\ UNCHANGED ch

\* installDeps up to the package-manager probes
installDepsBegin ==
  /\ ap.pc = "files" /\ wf.pc = "idle"
  /\ ap.k > Len(ap.files)
  /\ LET blocked == blockedDeps(ap.deps, ap.isNextProject)
         needed == neededDeps(ap.deps, ap.isNextProject)
     IN ap' = IF needed = <<>>
              THEN ReturnApply([ap EXCEPT !.blocked = blocked, !.skipped = blocked])
              ELSE [ap EXCEPT !.pc = "probe", !.blocked = blocked,
                              !.prod = SelectSeq(needed, LAMBDA d : ~isDevDep(d)),
                              !.dev = SelectSeq(needed, LAMBDA d : isDevDep(d))]
  /\ UNCHANGED <<ch, wf>>

\* cmdOk("pnpm"), cmdOk("npm"), cmdOk("yarn") and the choice of the command
installDepsProbe ==
  /\ ap.pc = "probe"
  /\ \E hasPnpm \in BOOLEAN, hasNpm \in BOOLEAN, hasYarn \in BOOLEAN :
       LET a == [ap EXCEPT !.probed = TRUE, !.skipped = ap.blocked]
       IN ap' = IF hasPnpm THEN StartProd([a EXCEPT !.cmd = "pnpm"])
                ELSE IF hasYarn THEN StartProd([a EXCEPT !.cmd = "yarn"])
                ELSE IF ~hasNpm THEN RaiseApply(a, "No package manager found (need pnpm, yarn, or npm).")
                ELSE StartProd([a EXCEPT !.cmd = "npm"])
  /\ UNCHANGED <<ch, wf>>

Command(a, pkgs, ok) == [cmd |-> a.cmd, bucket |-> a.bucket, pkgs |-> pkgs, ok |-> ok]

\* installBestEffort: the batched install of the bucket
installBatch ==
  /\ ap.pc = "batch"
  /\ \E ok \in BOOLEAN :
       LET pkgs == BucketPkgs(ap)
           a == [ap EXCEPT !.cmds = Append(@, Command(ap, pkgs, ok))]
       IN ap' = IF ok THEN AfterBucket([a EXCEPT !.installed = @ \o pkgs])
                ELSE [a EXCEPT !.pc = "each", !.i = 1, !.bInstalled = <<>>, !.bSkipped = <<>>]
  /\ UNCHANGED <<ch, wf>>

\* what installBestEffort returns after the per-package installs
eachResult_DropOnFailure(pkgs, installed, skipped) ==
  IF skipped # <<>> THEN [installed |-> <<>>, skipped |-> pkgs]
  ELSE [installed |-> installed, skipped |-> skipped]
eachResult(pkgs, installed, skipped) ==
  IF installed = <<>> THEN [installed |-> <<>>, skipped |-> pkgs]
  ELSE [installed |-> installed, skipped |-> skipped]

\* installBestEffort: one package of the bucket on its own
installEach ==
  /\ ap.pc = "each"
  /\ \E ok \in BOOLEAN :
       LET pkgs == BucketPkgs(ap)
           pkg == pkgs[ap.i]
           a == [ap EXCEPT !.cmds = Append(@, Command(ap, <<pkg>>, ok)),
                           !.bInstalled = IF ok THEN Append(@, pkg) ELSE @,
                           !.bSkipped = IF ok THEN @ ELSE Append(@, pkg)]
           res == eachResult(pkgs, a.bInstalled, a.bSkipped)
       IN ap' = IF ap.i < Len(pkgs) THEN [a EXCEPT !.i = @ + 1]
                ELSE AfterBucket([a EXCEPT !.installed = @ \o res.installed,
                                           !.skipped = @ \o res.skipped,
                                           !.i = 0, !.bInstalled = <<>>, !.bSkipped = <<>>])
  /\ UNCHANGED <<ch, wf>>

\* applyChanges is called: package.json is read, isNextProject is derived
InitApply ==
  /\ PreviewInit
  /\ FixIdle
  /\ LogIdle
  /\ HistoryIdle
  /\ RepairIdle
  /\ ParseIdle
  /\ ch = <<>>
  /\ wf = NoWrite
  /\ \E files \in SeqsUpTo(ApplyPaths, MaxFiles), deps \in SeqsUpTo(DepNames, MaxDeps),
        isNextProject \in BOOLEAN :
       ap = [NoApply EXCEPT !.pc = "files", !.files = files, !.deps = deps,
                            !.isNextProject = isNextProject, !.k = 1]

NextApply ==
  \/ applyNextFile /\ UNCHANGED <<previewVars, fixVars, parseVars, repairVars, logVars, historyVars>>
  \/ writeFileSanitize /\ UNCHANGED <<previewVars, ap, fixVars, parseVars, repairVars, logVars, historyVars>>
  \/ writeFileWrite /\ UNCHANGED <<previewVars, ap, fixVars, parseVars, repairVars, logVars, historyVars>>
  \/ applyFileWritten /\ UNCHANGED <<previewVars, fixVars, parseVars, repairVars, logVars, historyVars>>
  \/ applyFileRaised /\ UNCHANGED <<previewVars, fixVars, parseVars, repairVars, logVars, historyVars>>
  \/ installDepsBegin /\ UNCHANGED <<previewVars, fixVars, parseVars, repairVars, logVars, historyVars>>
  \/ installDepsProbe /\ UNCHANGED <<previewVars, fixVars, parseVars, repairVars, logVars, historyVars>>
  \/ installBatch /\ UNCHANGED <<previewVars, fixVars, parseVars, repairVars, logVars, historyVars>>
  \/ installEach /\ UNCHANGED <<previewVars, fixVars, parseVars, repairVars, logVars, historyVars>>

SpecApply == InitApply /\ [][NextApply]_vars

\* The classifier on its own: the names installDeps hands to
\* filterInvalidDeps (trimmed, non-empty, without repetition), the valid
\* names it returns, and the classifier applied once more to those.
ClassNames ==
  { <<"l", "o", "d", "a", "s", "h">>,
    <<" ", "l", "o", "d", "a", "s", "h">>,
    <<" ">>,
    <<"a", " ", "b">>,
    <<"u", "i">>,
    <<"U", "I">>,
    <<"@", "n", "e", "x", "t", "/", "f", "o", "n", "t">>,
    <<"@", "N", "e", "x", "t", "/", "x">>,
    <<"g", "i", "t", "+", "x">>,
    <<"x", ".", "g", "i", "t">>,
    <<"g", "i", "t", "h", "u", "b", ":", "u", "/", "r">>,
    <<"r", "e", "a", "c", "t", "-", "r", "o", "u", "t", "e", "r">>,
    <<"r", "e", "a", "c", "t", "-", "r", "o", "u", "t", "e", "r", "@", "6">>,
    <<"r", "e", "a", "c", "t", "-", "r", "o", "u", "t", "e", "r", "-", "d", "o", "m">>,
    <<"r", "e", "a", "c", "t", "-", "r", "o", "u", "t", "e", "r", "-", "n", "a", "t", "i", "v", "e">>,
    <<"a", "/", "b">>,
    <<"@", "a", "/", "b">>,
    <<"@", "t", "a", "i", "l", "w", "i", "n", "d", "c", "s", "s", "/", "f", "o", "r", "m", "s">>,
    <<"@", "t", "a", "i", "l", "w", "i", "n", "d", "c", "s", "s", "/", "p", "o", "s", "t", "c", "s", "s">>,
    <<"@", "v", "e", "r", "c", "e", "l", "/", "p", "r", "e", "a", "c", "t">>,
    <<"@", "v", "e", "r", "c", "e", "l", "/", "p", "r", "e", "a", "c", "t", "@", "1">>,
    <<"n", "e", "x", "t", "/", "l", "i", "n", "k">> }

classifyDeps ==
  /\ ap.pc = "classify"
  /\ ap' = [ap EXCEPT !.pc = "classified",
                      !.valid = filterInvalidDeps(ap.raw, ap.isNextProject)]
classifyAgain ==
  /\ ap.pc = "classified"
  /\ ap' = [ap EXCEPT !.pc = "again",
                      !.again = filterInvalidDeps(ap.valid, ap.isNextProject)]

InitClassify ==
  /\ PreviewInit
  /\ FixIdle
  /\ LogIdle
  /\ HistoryIdle
  /\ RepairIdle
  /\ ParseIdle
  /\ ch = <<>>
  /\ wf = NoWrite
  /\ \E deps \in SeqsUpTo(ClassNames, MaxDeps), isNextProject \in BOOLEAN :
       ap = [pc |-> "classify", deps |-> deps, raw |-> rawDeps(deps),
             isNextProject |-> isNextProject, valid |-> <<>>, again |-> <<>>]

NextClassify ==
  \/ classifyDeps /\ UNCHANGED <<previewVars, ch, wf, fixVars, parseVars, repairVars, logVars, historyVars>>
  \/ classifyAgain /\ UNCHANGED <<previewVars, ch, wf, fixVars, parseVars, repairVars, logVars, historyVars>>

SpecClassify == InitClassify /\ [][NextClassify]_vars

\* ------------------------------------------------------------------------
\* Orchestration: the auto-fix loop of the renderer
\* (apps/studio/src/renderer/src/App.tsx, fixPreviewWithAi and cancelAi) and
\* the prompt-and-apply run of the main process
\* (apps/studio/src/main/index.ts, runAiAndApply and 'ai:cancel').
\* ------------------------------------------------------------------------
maxAttempts == 3
\* one more retry than the code allows
maxFormatRetries_Three == maxAttempts
maxFormatRetries == 2

NoUpdatesError == "AI did not return any file updates (no File blocks / Dependencies)."
AbortError == "AbortError"

Failure(why, attempt) == [why |-> why, attempt |-> attempt]

RunActive == run.pc \in {"prep", "send", "wait", "apply"}
\* aiRuns.get(requestId)
aiRunsHas(id) == RunActive /\ run.id = id

\* the promise of runAiAndApply settles; the finally block unregisters the run
RunResolve(r, applied, installed) ==
  [r EXCEPT !.pc = "resolved",
            !.result = [appliedFiles |-> applied, installedDependencies |-> installed,
                        cancelled |-> FALSE]]
RunReject(r, why) == [r EXCEPT !.pc = "rejected", !.err = why]

\* if (lastFailure) setAutoFixError(lastFailure), then the finally block
reportFailure_Never(lastFailure, current) == current
reportFailure(lastFailure, current) ==
  IF lastFailure # NoFailure THEN lastFailure ELSE current

FixDone(f, failure) ==
  [f EXCEPT !.pc = "done", !.lastFailure = failure,
            !.autoFixError = reportFailure(failure, f.autoFixError),
            !.autoFixBusy = FALSE, !.autoFixRequestId = 0]

\* `continue`: the next pass of the for loop, or its end
FixContinue(f, failure) ==
  IF f.attempt < maxAttempts
  THEN [f EXCEPT !.pc = "collect", !.attempt = @ + 1, !.lastFailure = failure]
  ELSE FixDone(f, failure)

\* the user presses Fix
fixPreviewWithAi ==
  /\ fx.pc = "idle" /\ ~fx.autoFixBusy
  /\ fx' = [fx EXCEPT !.pc = "collect", !.attempt = 1, !.autoFixBusy = TRUE,
                      !.autoFixError = NoFailure, !.lastFailure = NoFailure]
  /\ UNCHANGED run

\* status and logs are read, the prompt is built, window.api.ai.run is called
fixRequest ==
  /\ fx.pc = "collect" /\ run.pc = "idle"
  /\ fx' = [fx EXCEPT !.pc = "await", !.autoFixRequestId = fx.attempt, !.requests = @ + 1]
  /\ run' = [NoRun EXCEPT !.pc = "prep", !.id = fx.attempt, !.require = TRUE]

\* runAiAndApply up to the model loop: settings, chat, engine, context
runPrepare ==
  /\ run.pc = "prep"
  /\ \E ok \in BOOLEAN :
       run' = IF ok THEN [run EXCEPT !.pc = "send"] ELSE RunReject(run, "setup")
  /\ UNCHANGED fx

\* engine.chat: fetch with the signal of the run
engineChatSend ==
  /\ run.pc = "send"
  /\ IF run.aborted
     THEN /\ run' = RunReject([run EXCEPT !.abortedRequest = TRUE], AbortError)
          /\ UNCHANGED fx
     ELSE /\ run' = [run EXCEPT !.pc = "wait", !.calls = @ + 1]
          /\ fx' = [fx EXCEPT !.modelCalls = @ + 1]

\* the request in flight is aborted
engineChatAborted ==
  /\ run.pc = "wait" /\ run.aborted
  /\ run' = RunReject([run EXCEPT !.abortedRequest = TRUE], AbortError)
  /\ UNCHANGED fx

\* the model answers; parseAiResponse; the retry decision of the for loop
engineChatReply ==
  /\ run.pc = "wait" /\ ~run.aborted
  /\ \/ /\ run' = RunReject(run, "engine")
        /\ UNCHANGED fx
     \/ \E files \in 0..1, deps \in 0..1 :
          LET hasEdits == files > 0 \/ deps > 0
              r == [run EXCEPT !.files = files, !.deps = deps,
                               !.responses = Append(@, hasEdits)]
          IN /\ run' = IF ~run.require \/ hasEdits THEN [r EXCEPT !.pc = "apply"]
                       ELSE IF run.attempt < maxFormatRetries
                       THEN [r EXCEPT !.pc = "send", !.attempt = @ + 1]
                       ELSE RunReject(r, NoUpdatesError)
             /\ UNCHANGED fx

\* applyChanges, the summary message, saveChat, the result
runApply ==
  /\ run.pc = "apply"
  /\ \/ run' = RunReject([run EXCEPT !.applyCalled = TRUE], "apply")
     \/ \E installed \in 0..run.deps :
          run' = RunResolve([run EXCEPT !.applyCalled = TRUE], run.files, installed)
  /\ UNCHANGED fx

\* setTimeout(() => ac.abort(), timeoutMs)
runTimeout ==
  /\ RunActive /\ ~run.aborted
  /\ run' = [run EXCEPT !.aborted = TRUE]
  /\ UNCHANGED fx

\* the user presses Stop: 'ai:cancel' aborts the run registered under the id,
\* then the renderer clears its flags
cancelAi ==
  /\ fx.autoFixBusy /\ fx.autoFixRequestId # 0
  /\ run' = IF aiRunsHas(fx.autoFixRequestId) THEN [run EXCEPT !.aborted = TRUE] ELSE run
  /\ fx' = [fx EXCEPT !.autoFixRequestId = 0, !.autoFixBusy = FALSE, !.cancelled = TRUE]

\* await window.api.ai.run resolved
fixRunResolved ==
  /\ fx.pc = "await" /\ run.pc = "resolved"
  /\ fx' = IF run.result.cancelled THEN FixDone(fx, NoFailure)
           ELSE IF run.result.appliedFiles = 0 /\ run.result.installedDependencies = 0
           THEN FixDone(fx, Failure(NoUpdatesError, fx.attempt))
           ELSE [fx EXCEPT !.pc = "restart"]
  /\ run' = NoRun

\* await window.api.ai.run rejected: the catch block
fixRunRejected ==
  /\ fx.pc = "await" /\ run.pc = "rejected"
  /\ fx' = [FixDone(fx, NoFailure) EXCEPT !.lastFailure = fx.lastFailure,
                                          !.autoFixError = Failure(run.err, fx.attempt)]
  /\ run' = NoRun

\* characters of the log lines that cannot be written here: U+2716, U+25B6,
\* U+2705, U+25A0
CROSS == "cross"
ARROW == "arrow"
CHECK == "check"
SQUARE == "square"
\* findLikelyErrorLine returns null
NoLine == <<>>
ErrorWindow == 160

\* the tests of findLikelyErrorLine on one trimmed line
isErrorLine(line) ==
  LET low == toLowerCase(line)
  IN \/ StartsWith(line, <<CROSS>>)
     \/ StartsWith(low, <<"e", "r", "r", "o", "r", ":">>)
     \/ Includes(low, <<"f", "a", "i", "l", "e", "d", " ", "t", "o", " ", "c", "o", "m", "p", "i",
         "l", "e">>)
     \/ Includes(low, <<"m", "o", "d", "u", "l", "e", " ", "n", "o", "t", " ", "f", "o", "u", "n",
         "d">>)
     \/ Includes(low, <<"c", "a", "n", "n", "o", "t", " ", "f", "i", "n", "d", " ", "m", "o", "d",
         "u", "l", "e">>)
     \/ Includes(low, <<"s", "y", "n", "t", "a", "x", "e", "r", "r", "o", "r">>)
     \/ Includes(low, <<"r", "e", "f", "e", "r", "e", "n", "c", "e", "e", "r", "r", "o", "r">>)
     \/ Includes(low, <<"t", "y", "p", "e", "e", "r", "r", "o", "r">>)
     \/ Includes(low, <<"u", "n", "h", "a", "n", "d", "l", "e", "d", "r", "e", "j", "e", "c", "t",
         "i", "o", "n">>)
     \/ Includes(low, <<"u", "n", "h", "a", "n", "d", "l", "e", "d", " ", "r", "e", "j", "e", "c",
         "t", "i", "o", "n">>)

\* the newest line among the last 160 that passes a test, trimmed
findLikelyErrorLine(lines) ==
  LET start == IF Len(lines) - ErrorWindow > 0 THEN Len(lines) - ErrorWindow ELSE 0
      hits == {i \in (start + 1)..Len(lines) : Trim(lines[i]) # <<>> /\ isErrorLine(Trim(lines[i]))}
  IN IF hits = {} THEN NoLine
     ELSE Trim(lines[CHOOSE i \in hits : \A j \in hits : j <= i])

\* lines of the supervisor and of the dev server
StartingLine == <<ARROW>> \o <<" ", "S", "t", "a", "r", "t", "i", "n", "g", " ", "p", "r", "e",
    "v", "i", "e", "w">>
StoppedLine == <<SQUARE>> \o <<" ", "P", "r", "e", "v", "i", "e", "w", " ", "s", "t", "o", "p",
    "p", "e", "d">>
ReadyLine == <<CHECK>> \o <<" ", "P", "r", "e", "v", "i", "e", "w", " ", "r", "e", "a", "d", "y">>
NotReadyLine == <<CROSS>> \o <<" ", "P", "r", "e", "v", "i", "e", "w", " ", "d", "i", "d", " ",
    "n", "o", "t", " ", "b", "e", "c", "o", "m", "e", " ", "r", "e", "a", "d", "y">>
CrashedLine == <<CROSS>> \o <<" ", "P", "r", "e", "v", "i", "e", "w", " ", "s", "e", "r", "v",
    "e", "r", " ", "c", "r", "a", "s", "h", "e", "d", ".">>
ModuleLine == <<"M", "o", "d", "u", "l", "e", " ", "n", "o", "t", " ", "f", "o", "u", "n", "d",
    ":", " ", "C", "a", "n", "'", "t", " ", "r", "e", "s", "o", "l", "v", "e", " ", "'", "x", "'">>
OutputLine == <<" ", " ", "o", "k", " ">>
\* the log when the user presses Fix: the preview was started before, and is
\* broken by a failed build and a crash, or in the page only
BrokenLogs ==
  { <<StartingLine, OutputLine, ModuleLine, CrashedLine>>,
    <<StartingLine, OutputLine, ReadyLine>> }
\* what startPreview(true) and the 2.5 s after it bring: the state of the
\* instance, the lines the dev server wrote, a failed build, an error
\* reported by the page
Restart(state, output, buildError, runtime) ==
  [state |-> state, output |-> output, buildError |-> buildError, runtime |-> runtime]
Restarts ==
  { Restart("running", 2, FALSE, FALSE), Restart("running", ErrorWindow, FALSE, FALSE),
    Restart("running", 2, TRUE, FALSE), Restart("running", 2, FALSE, TRUE),
    Restart("error", 2, FALSE, FALSE) }
sinceRestart(o) ==
  <<StoppedLine, StartingLine>>
    \o [k \in 1..o.output |-> OutputLine]
    \o (IF o.buildError THEN <<ModuleLine>> ELSE <<>>)
    \o (IF o.state = "running" THEN <<ReadyLine>> ELSE <<NotReadyLine>>)
\* the instance after the restart; the log stays below MAX_LOG_LINES here
restarted(i, before, o) ==
  [i EXCEPT !.known = TRUE, !.state = o.state,
            !.error = IF o.state = "error" THEN PlainError("Preview did not become ready")
                      ELSE NoError,
            !.logs = before \o sinceRestart(o)]
\* the test of the loop after the restart
problemSeen(st2, logs2, runtimeAfter) ==
  IF st2.state = "error" THEN "state error"
  ELSE IF findLikelyErrorLine(logs2) # NoLine THEN "log error"
  ELSE IF runtimeAfter THEN "runtime error"
  ELSE "healthy"

\* the tree is refreshed, the preview restarted (startPreview clears
\* autoFixError and the runtime error), then status, logs and runtime error
\* are read
fixRestartCheck ==
  /\ fx.pc = "restart"
  /\ \E o \in Restarts, before \in (IF inst.known THEN {inst.logs} ELSE BrokenLogs) :
       LET i2 == restarted(inst, before, o)
           seen == problemSeen(i2, previewLogs(i2, TailOpts(250)), o.runtime)
           f == [fx EXCEPT !.autoFixError = NoFailure, !.runtimeError = o.runtime]
       IN /\ inst' = i2
          /\ fx' = IF seen = "healthy"
                   THEN [FixDone(f, NoFailure) EXCEPT !.healthy = TRUE]
                   ELSE FixContinue(f, Failure(seen, fx.attempt))
  /\ UNCHANGED run

InitFix ==
  /\ PreviewInit
  /\ ApplyIdle
  /\ FixIdle
  /\ LogIdle
  /\ HistoryIdle
  /\ RepairIdle
  /\ ParseIdle

NextFix ==
  \/ fixPreviewWithAi /\ UNCHANGED <<previewVars, applyVars, parseVars, repairVars, logVars, historyVars>>
  \/ fixRequest /\ UNCHANGED <<previewVars, applyVars, parseVars, repairVars, logVars, historyVars>>
  \/ runPrepare /\ UNCHANGED <<previewVars, applyVars, parseVars, repairVars, logVars, historyVars>>
  \/ engineChatSend /\ UNCHANGED <<previewVars, applyVars, parseVars, repairVars, logVars, historyVars>>
  \/ engineChatAborted /\ UNCHANGED <<previewVars, applyVars, parseVars, repairVars, logVars, historyVars>>
  \/ engineChatReply /\ UNCHANGED <<previewVars, applyVars, parseVars, repairVars, logVars, historyVars>>
  \/ runApply /\ UNCHANGED <<previewVars, applyVars, parseVars, repairVars, logVars, historyVars>>
  \/ runTimeout /\ UNCHANGED <<previewVars, applyVars, parseVars, repairVars, logVars, historyVars>>
  \/ cancelAi /\ UNCHANGED <<previewVars, applyVars, parseVars, repairVars, logVars, historyVars>>
  \/ fixRunResolved /\ UNCHANGED <<previewVars, applyVars, parseVars, repairVars, logVars, historyVars>>
  \/ fixRunRejected /\ UNCHANGED <<previewVars, applyVars, parseVars, repairVars, logVars, historyVars>>
  \/ fixRestartCheck /\ UNCHANGED <<procs, starts, stops, chunks, ret, applyVars, parseVars, repairVars, logVars, historyVars>>

SpecFix == InitFix /\ [][NextFix]_vars

\* every awaited call of the loop settles: the model request is bounded by
\* the timeout of the run, the preview calls return
SpecFixFair == SpecFix /\ WF_vars(NextFix)

\* ------------------------------------------------------------------------
\* The busy flags of the renderer (App.tsx): Fix, Send and Stop.
\* Every invocation of fixPreviewWithAi and of sendMessage has its own
\* locals; the flags and the request ids are React state shared by all.
\* A request id is registered in the main process while its run is awaited.
\* ------------------------------------------------------------------------
MaxLoops == 2
MaxSends == 1
Loops == 1..MaxLoops
Sends == 1..MaxSends

NoLoop == [pc |-> "idle", attempt |-> 0, req |-> 0]
NoChat == [pc |-> "idle", req |-> 0]
NoStop == [pc |-> "idle", id |-> 0]
NoBusy ==
  [autoFixBusy |-> FALSE, aiBusy |-> FALSE, autoFixRequestId |-> 0, aiRequestId |-> 0,
   loops |-> [l \in Loops |-> NoLoop], chats |-> [k \in Sends |-> NoChat], stop |-> NoStop,
   aborted |-> {}, uid |-> 0]

LoopActive(f, l) == f.loops[l].pc \notin {"idle", "done"}
ChatActive(f, k) == f.chats[k].pc \notin {"idle", "done"}
\* aiRuns: the request ids of the runs in progress
aiRuns(f) ==
  {f.loops[l].req : l \in {x \in Loops : f.loops[x].pc = "await"}}
    \cup {f.chats[k].req : k \in {x \in Sends : f.chats[x].pc = "await"}}

\* the finally block of fixPreviewWithAi
fixFinally(f, l) ==
  [f EXCEPT !.loops[l].pc = "done", !.autoFixBusy = FALSE, !.autoFixRequestId = 0]
\* the finally block of sendMessage
sendFinally(f, k) ==
  [f EXCEPT !.chats[k].pc = "done", !.aiBusy = FALSE, !.aiRequestId = 0]

\* if (autoFixBusy || aiBusy) return
fixGuard(f) == ~(f.autoFixBusy \/ f.aiBusy)

\* Fix is pressed: the guard, then setAutoFixBusy(true), up to the first await
fixPressed(l) ==
  /\ fx.loops[l].pc = "idle"
  /\ l > 1 => fx.loops[l - 1].pc # "idle"
  /\ fixGuard(fx)
  /\ fx' = [fx EXCEPT !.autoFixBusy = TRUE, !.loops[l] = [pc |-> "collect", attempt |-> 1, req |-> 0]]

\* status and logs were read: setAutoFixRequestId(uid()), window.api.ai.run
fixRun(l) ==
  /\ fx.loops[l].pc = "collect"
  /\ fx' = [fx EXCEPT !.uid = @ + 1, !.autoFixRequestId = fx.uid + 1,
                      !.loops[l].pc = "await", !.loops[l].req = fx.uid + 1]

\* the run settles: rejected (always so when aborted), without updates, or
\* with updates
fixRunSettled(l) ==
  /\ fx.loops[l].pc = "await"
  /\ \E out \in {"rejected", "no updates", "updates"} :
       /\ fx.loops[l].req \in fx.aborted => out = "rejected"
       /\ fx' = IF out = "updates" THEN [fx EXCEPT !.loops[l].pc = "restart"]
                ELSE fixFinally(fx, l)

\* the preview was restarted and looked at: return, continue, or the end of
\* the for loop
fixChecked(l) ==
  /\ fx.loops[l].pc = "restart"
  /\ \E healthy \in BOOLEAN :
       fx' = IF ~healthy /\ fx.loops[l].attempt < maxAttempts
             THEN [fx EXCEPT !.loops[l].pc = "collect", !.loops[l].attempt = @ + 1]
             ELSE fixFinally(fx, l)

\* Send is pressed (the button and the text area are disabled while a flag
\* is set): setAiRequestId, setAiBusy(true), window.api.ai.run
sendMessage(k) ==
  /\ fx.chats[k].pc = "idle"
  /\ k > 1 => fx.chats[k - 1].pc # "idle"
  /\ ~(fx.aiBusy \/ fx.autoFixBusy)
  /\ fx' = [fx EXCEPT !.uid = @ + 1, !.aiRequestId = fx.uid + 1, !.aiBusy = TRUE,
                      !.chats[k] = [pc |-> "await", req |-> fx.uid + 1]]

sendRunSettled(k) ==
  /\ fx.chats[k].pc = "await"
  /\ \E ok \in BOOLEAN :
       /\ fx.chats[k].req \in fx.aborted => ~ok
       /\ fx' = IF ok THEN [fx EXCEPT !.chats[k].pc = "tree"] ELSE sendFinally(fx, k)

\* window.api.fs.tree settles
sendTreeSettled(k) ==
  /\ fx.chats[k].pc = "tree"
  /\ fx' = sendFinally(fx, k)

\* Stop is pressed (the button is rendered while a flag is set): cancelAi
\* up to its await; 'ai:cancel' aborts the run registered under the id
stopPressed ==
  /\ fx.aiBusy \/ fx.autoFixBusy
  /\ fx.stop.pc = "idle"
  /\ LET id == IF fx.autoFixRequestId # 0 THEN fx.autoFixRequestId ELSE fx.aiRequestId
     IN /\ id # 0
        /\ fx' = [fx EXCEPT !.stop = [pc |-> "await", id |-> id],
                            !.aborted = IF id \in aiRuns(fx) THEN @ \cup {id} ELSE @]

\* the finally block of cancelAi
stopSettled ==
  /\ fx.stop.pc = "await"
  /\ fx' = [fx EXCEPT !.stop = NoStop, !.aiRequestId = 0, !.aiBusy = FALSE,
                      !.autoFixRequestId = 0, !.autoFixBusy = FALSE]

InitBusy ==
  /\ PreviewInit
  /\ ApplyIdle
  /\ fx = NoBusy
  /\ run = NoRun
  /\ LogIdle
  /\ HistoryIdle
  /\ RepairIdle
  /\ ParseIdle

NextBusy ==
  \/ \E l \in Loops : fixPressed(l) /\ UNCHANGED <<previewVars, applyVars, run, parseVars, repairVars, logVars, historyVars>>
  \/ \E l \in Loops : fixRun(l) /\ UNCHANGED <<previewVars, applyVars, run, parseVars, repairVars, logVars, historyVars>>
  \/ \E l \in Loops : fixRunSettled(l) /\ UNCHANGED <<previewVars, applyVars, run, parseVars, repairVars, logVars, historyVars>>
  \/ \E l \in Loops : fixChecked(l) /\ UNCHANGED <<previewVars, applyVars, run, parseVars, repairVars, logVars, historyVars>>
  \/ \E k \in Sends : sendMessage(k) /\ UNCHANGED <<previewVars, applyVars, run, parseVars, repairVars, logVars, historyVars>>
  \/ \E k \in Sends : sendRunSettled(k) /\ UNCHANGED <<previewVars, applyVars, run, parseVars, repairVars, logVars, historyVars>>
  \/ \E k \in Sends : sendTreeSettled(k) /\ UNCHANGED <<previewVars, applyVars, run, parseVars, repairVars, logVars, historyVars>>
  \/ stopPressed /\ UNCHANGED <<previewVars, applyVars, run, parseVars, repairVars, logVars, historyVars>>
  \/ stopSettled /\ UNCHANGED <<previewVars, applyVars, run, parseVars, repairVars, logVars, historyVars>>

SpecBusy == InitBusy /\ [][NextBusy]_vars

\* ------------------------------------------------------------------------
\* Response Parser (packages/codegen/src/parse.ts)
\* A response is a sequence of characters; NL separates its lines.
\* ------------------------------------------------------------------------
NL == "\n"
CR == "\r"
\* the backquote character, which cannot be written inside a string here
BQ == "bq"
FENCE == <<BQ, BQ, BQ>>

\* s.replace(/\s+$/g, "").replace(/^\s+/g, "")
safeTrim(s) == TrimStart(TrimEnd(s))

\* raw.replace(/\r\n/g, "\n") : a CR that an NL follows is dropped
replaceCrLf(s) ==
  LET kept == SelectSeq([i \in 1..Len(s) |-> i],
                        LAMBDA i : ~(s[i] = CR /\ i < Len(s) /\ s[i + 1] = NL))
  IN [k \in 1..Len(kept) |-> s[kept[k]]]

\* String.prototype.split(sep) for a one-character separator
RECURSIVE SplitOn(_, _)
SplitOn(s, sep) ==
  IF \A i \in 1..Len(s) : s[i] # sep THEN << s >>
  ELSE LET i == CHOOSE x \in 1..Len(s) : s[x] = sep /\ \A y \in 1..(x - 1) : s[y] # sep
       IN << SubSeq(s, 1, i - 1) >> \o SplitOn(DropFirst(s, i), sep)

\* Array.prototype.join(sep)
RECURSIVE JoinWith(_, _)
JoinWith(list, sep) ==
  IF list = <<>> THEN <<>>
  ELSE IF Len(list) = 1 THEN list[1]
  ELSE list[1] \o <<sep>> \o JoinWith(Tail(list), sep)

\* does s begin with the word, letters compared without case (the /i flag)
StartsWithNoCase(s, word) ==
  Len(s) >= Len(word) /\ toLowerCase(SubSeq(s, 1, Len(word))) = word
EndsWithNoCase(s, word) ==
  Len(s) >= Len(word) /\ toLowerCase(SubSeq(s, Len(s) - Len(word) + 1, Len(s))) = word

\* [-*\u2022] : the bullet characters of the regular expressions; U+2022
\* cannot be written here and is in no line of the replies below
IsBullet(x) == x \in {"-", "*"}
\* \w
IsWord(x) ==
  \/ \E j \in 1..26 : UpperCase[j] = x \/ LowerCase[j] = x
  \/ IsDigit(x)
  \/ x = "_"

\* the number of leading # characters, and of leading \w characters, of s
RECURSIVE LeadHashes(_)
LeadHashes(s) == IF s # <<>> /\ s[1] = "#" THEN 1 + LeadHashes(Tail(s)) ELSE 0
RECURSIVE LeadWord(_)
LeadWord(s) == IF s # <<>> /\ IsWord(s[1]) THEN 1 + LeadWord(Tail(s)) ELSE 0

\* (?:[-*\u2022]\s*)? at the start of s: what is left after it
SkipBullet(s) == IF s # <<>> /\ IsBullet(s[1]) THEN TrimStart(Tail(s)) ELSE s
\* (?:#{1,6}\s*)? at the start of s: what is left after it (a seventh # is
\* left in place, and nothing the parser looks for begins with #)
SkipHashes(s) ==
  LET n == LeadHashes(s)
  IN IF n = 0 THEN s ELSE TrimStart(DropFirst(s, IF n > 6 THEN 6 ELSE n))

\* what follows "<word>\s*:" when s begins with it, letters without case
HasLabel(s, word) ==
  /\ StartsWithNoCase(s, word)
  /\ LET r == TrimStart(DropFirst(s, Len(word))) IN r # <<>> /\ r[1] = ":"
AfterLabel(s, word) == Tail(TrimStart(DropFirst(s, Len(word))))

DependenciesWord == <<"d", "e", "p", "e", "n", "d", "e", "n", "c", "i", "e", "s">>
FileWord == <<"f", "i", "l", "e">>
NameWord == <<"n", "a", "m", "e">>

\* JSON.parse(text) for the texts that are arrays of plain strings (no
\* escape and no comma inside a string): ok says whether it is one, items
\* are its strings. Every other text goes to the loose reading below, as a
\* text that JSON.parse refuses or that is not an array does.
IsJsonString(s) ==
  /\ Len(s) >= 2
  /\ s[1] = "\"" /\ s[Len(s)] = "\""
  /\ \A i \in 2..(Len(s) - 1) : s[i] \notin {"\"", "\\"}
jsonArray(text) ==
  LET t == Trim(text)
      bracketed == Len(t) >= 2 /\ t[1] = "[" /\ t[Len(t)] = "]"
      inner == IF bracketed THEN Trim(SubSeq(t, 2, Len(t) - 1)) ELSE <<>>
      parts == IF inner = <<>> THEN <<>> ELSE trimAll(SplitOn(inner, ","))
      ok == bracketed /\ \A i \in 1..Len(parts) : IsJsonString(parts[i])
  IN [ok |-> ok,
      items |-> IF ok THEN [i \in 1..Len(parts) |-> SubSeq(parts[i], 2, Len(parts[i]) - 1)]
                ELSE <<>>]

\* l.replace(/^[-*\u2022]\s+/, "")
StripListBullet(s) ==
  IF Len(s) >= 2 /\ IsBullet(s[1]) /\ IsSpace(s[2]) THEN TrimStart(Tail(s)) ELSE s

\* s.replace(/^['"]|['"]$/g, "")
unquote(s) == StripQuotes(s)

parseJsonArrayLoose(text) ==
  LET js == jsonArray(text)
      \* .replace(/^Dependencies\s*:\s*/i, "")
      c1 == IF HasLabel(text, DependenciesWord)
            THEN TrimStart(AfterLabel(text, DependenciesWord)) ELSE text
      \* .replace(/^[\[\(]\s*/g, "")
      c2 == IF c1 # <<>> /\ c1[1] \in {"[", "("} THEN TrimStart(Tail(c1)) ELSE c1
      \* .replace(/[\]\)]\s*$/g, "")
      c2e == TrimEnd(c2)
      c3 == IF c2e # <<>> /\ c2e[Len(c2e)] \in {"]", ")"}
            THEN SubSeq(c2e, 1, Len(c2e) - 1) ELSE c2
      cleaned == Trim(c3)
      \* .split("\n").map(trim).filter(Boolean).map(strip bullet, trim).filter(Boolean)
      cleanedLines == nonEmpty(trimAll(SplitOn(cleaned, NL)))
      bulletLines ==
        nonEmpty(trimAll([i \in 1..Len(cleanedLines) |-> StripListBullet(cleanedLines[i])]))
      byComma == trimAll(SplitOn(cleaned, ","))
  IN IF js.ok THEN js.items
     ELSE IF Len(bulletLines) >= 2 /\ ~Includes(cleaned, <<",">>)
     THEN nonEmpty([i \in 1..Len(bulletLines) |-> unquote(bulletLines[i])])
     ELSE nonEmpty([i \in 1..Len(byComma) |-> unquote(byComma[i])])

\* the five marker patterns of extractFileMarkerFromFence: the text (.+?)
\* of a marker line, or NoMatch
NoMatch == <<NL, NL>>
\* (.+?)\s*<closer>\s*$ : at least one character, blanks included
markerText(body, closer) ==
  IF closer = <<>> THEN body
  ELSE IF EndsWith(TrimEnd(body), closer)
  THEN SubSeq(TrimEnd(body), 1, Len(TrimEnd(body)) - Len(closer))
  ELSE <<>>
\* File\s*:\s*(.+?) after the comment opener
markerLabelled(inner, closer) ==
  IF HasLabel(inner, FileWord) /\ markerText(AfterLabel(inner, FileWord), closer) # <<>>
  THEN markerText(AfterLabel(inner, FileWord), closer)
  ELSE NoMatch
markerOpened(t) ==
  IF StartsWith(t, <<"/", "/">>) THEN markerLabelled(TrimStart(DropFirst(t, 2)), <<>>)
  ELSE IF StartsWith(t, <<"/", "*">>)
  THEN markerLabelled(TrimStart(DropFirst(t, 2)), <<"*", "/">>)
  ELSE IF StartsWith(t, <<"#">>) THEN markerLabelled(TrimStart(DropFirst(t, 1)), <<>>)
  ELSE IF StartsWith(t, <<"<", "!", "-", "-">>)
  THEN markerLabelled(TrimStart(DropFirst(t, 4)), <<"-", "-", ">">>)
  ELSE markerLabelled(t, <<>>)
markerBody(line) == markerOpened(TrimStart(line))

\* while (rest.length && rest[0].trim() === "") rest.shift()
RECURSIVE DropBlankLines(_)
DropBlankLines(lines) ==
  IF lines # <<>> /\ Trim(lines[1]) = <<>> THEN DropBlankLines(Tail(lines)) ELSE lines

NoFileMarker == [found |-> FALSE, filePath |-> <<>>, content |-> <<>>]
extractFileMarkerFromFence(contentLines) ==
  LET maxScan == IF Len(contentLines) < 8 THEN Len(contentLines) ELSE 8
      hits == { idx \in 1..maxScan : markerBody(contentLines[idx]) # NoMatch }
  IN IF hits = {} THEN NoFileMarker
     ELSE LET idx == CHOOSE x \in hits : \A y \in hits : x <= y
              filePath == StripDotSlash(Trim(markerBody(contentLines[idx])))
              rest == SubSeq(contentLines, 1, idx - 1) \o DropFirst(contentLines, idx)
          IN IF filePath = <<>> THEN NoFileMarker
             ELSE [found |-> TRUE, filePath |-> filePath,
                   content |-> JoinWith(DropBlankLines(rest), NL)]

\* the recognisers of one line, in the order parseAiResponse tries them
\* /^\s*(?:[-*\u2022]\s*)?(?:#{1,6}\s*)?Dependencies\s*:/i
isDependenciesLine(line) ==
  HasLabel(SkipHashes(SkipBullet(TrimStart(line))), DependenciesWord)
dependenciesRest(line) ==
  Trim(AfterLabel(SkipHashes(SkipBullet(TrimStart(line))), DependenciesWord))

\* /^\s*(?:#{1,6}\s*)?File\s*:\s*(.+)$/i
isFileLine(line) ==
  /\ HasLabel(SkipHashes(TrimStart(line)), FileWord)
  /\ AfterLabel(SkipHashes(TrimStart(line)), FileWord) # <<>>
fileLinePath(line) == Trim(AfterLabel(SkipHashes(TrimStart(line)), FileWord))

\* /^\s*(?:#{1,6}\s*)?([^\s]+?\.(?:tsx|ts|jsx|js|json|css|mjs|cjs))\s*$/i
SourceExtensions ==
  { <<".", "t", "s", "x">>, <<".", "t", "s">>, <<".", "j", "s", "x">>, <<".", "j", "s">>,
    <<".", "j", "s", "o", "n">>, <<".", "c", "s", "s">>, <<".", "m", "j", "s">>,
    <<".", "c", "j", "s">> }
headingPathText(line) == TrimEnd(SkipHashes(TrimStart(line)))
isHeadingPath(line) ==
  LET t == headingPathText(line)
  IN /\ \A i \in 1..Len(t) : ~IsSpace(t[i])
     /\ \E e \in SourceExtensions : EndsWithNoCase(t, e) /\ Len(t) > Len(e)
headingPath(line) == StripDotSlash(headingPathText(line))

\* /^```\s*file\s+(.+)$/i
isFenceFile(line) ==
  /\ StartsWith(line, FENCE)
  /\ StartsWithNoCase(TrimStart(DropFirst(line, 3)), FileWord)
  /\ LET r == DropFirst(TrimStart(DropFirst(line, 3)), 4)
     IN Len(r) >= 2 /\ IsSpace(r[1])
fenceFilePath(line) == Trim(DropFirst(TrimStart(DropFirst(line, 3)), 4))

\* /^```\s*\w+\s+file(?:name)?\s*[:=]\s*(.+)$/i : what follows [:=], or
\* NoMatch; one definition per piece of the pattern, from its end to its start
fenceHintValue(h) ==
  IF h # <<>> /\ h[1] \in {":", "="} /\ Tail(h) # <<>> THEN Tail(h) ELSE NoMatch
fenceHintName(g) ==
  fenceHintValue(TrimStart(IF StartsWithNoCase(g, NameWord) THEN DropFirst(g, 4) ELSE g))
fenceHintFile(afterWord) ==
  IF /\ afterWord # <<>> /\ IsSpace(afterWord[1])
     /\ StartsWithNoCase(TrimStart(afterWord), FileWord)
  THEN fenceHintName(DropFirst(TrimStart(afterWord), 4))
  ELSE NoMatch
fenceHintWord(t) ==
  IF LeadWord(t) >= 1 THEN fenceHintFile(DropFirst(t, LeadWord(t))) ELSE NoMatch
fenceHint(line) ==
  IF StartsWith(line, FENCE) THEN fenceHintWord(TrimStart(DropFirst(line, 3))) ELSE NoMatch
isFenceWithFile(line) == fenceHint(line) # NoMatch
fenceWithFilePath(line) == StripDotSlash(Trim(fenceHint(line)))

\* the first index >= i of a line that is not blank, Len(lines) + 1 if none
RECURSIVE skipBlank(_, _)
skipBlank(lines, i) ==
  IF i <= Len(lines) /\ Trim(lines[i]) = <<>> THEN skipBlank(lines, i + 1) ELSE i
\* the first index >= i of a line that starts with a fence, Len(lines) + 1 if none
RECURSIVE fenceEnd(_, _)
fenceEnd(lines, i) ==
  IF i <= Len(lines) /\ ~StartsWith(lines[i], FENCE) THEN fenceEnd(lines, i + 1) ELSE i
\* the lines of the block opened just before index i, and the index after
\* its closing fence (an unterminated block runs to the end of the input)
blockLines(lines, i) == SubSeq(lines, i, fenceEnd(lines, i) - 1)
afterBlock(lines, i) ==
  IF fenceEnd(lines, i) <= Len(lines) THEN fenceEnd(lines, i) + 1 ELSE fenceEnd(lines, i)
\* the first index >= j of a blank line, Len(lines) + 1 if none
RECURSIVE paragraphEnd(_, _)
paragraphEnd(lines, j) ==
  IF j <= Len(lines) /\ Trim(lines[j]) # <<>> THEN paragraphEnd(lines, j + 1) ELSE j

FileChange(path, contentLines) == [path |-> path, content |-> JoinWith(contentLines, NL)]

\* firstFileLineIndex: 0 stands for null, lines are numbered from 1
firstFile_Latest(first, i) == i
firstFile(first, i) == IF first = 0 THEN i ELSE first

\* the while loop of parseAiResponse from line i on
RECURSIVE scan(_, _, _, _, _)
scan(lines, i, files, deps, first) ==
  IF i > Len(lines) THEN [files |-> files, deps |-> deps, first |-> first]
  ELSE LET line == lines[i] IN
    IF isDependenciesLine(line) THEN
      IF dependenciesRest(line) # <<>>
      THEN scan(lines, i + 1, files, deps \o parseJsonArrayLoose(dependenciesRest(line)), first)
      ELSE LET j == paragraphEnd(lines, i + 1)
               buf == Flatten([k \in 1..(j - i - 1) |-> lines[i + k] \o <<NL>>])
           IN scan(lines, j, files, deps \o parseJsonArrayLoose(Trim(buf)), first)
    ELSE IF isFileLine(line) THEN
      LET k == skipBlank(lines, i + 1)
      IN IF k > Len(lines) \/ ~StartsWith(lines[k], FENCE)
         THEN scan(lines, k, files, deps, firstFile(first, i))
         ELSE scan(lines, afterBlock(lines, k + 1),
                   Append(files, FileChange(fileLinePath(line), blockLines(lines, k + 1))),
                   deps, firstFile(first, i))
    ELSE IF /\ isHeadingPath(line) /\ headingPath(line) # <<>>
            /\ skipBlank(lines, i + 1) <= Len(lines)
            /\ StartsWith(lines[skipBlank(lines, i + 1)], FENCE) THEN
      LET j == skipBlank(lines, i + 1)
      IN scan(lines, afterBlock(lines, j + 1),
              Append(files, FileChange(headingPath(line), blockLines(lines, j + 1))),
              deps, firstFile(first, i))
    ELSE IF isFenceFile(line) THEN
      scan(lines, afterBlock(lines, i + 1),
           Append(files, FileChange(fenceFilePath(line), blockLines(lines, i + 1))),
           deps, firstFile(first, i))
    ELSE IF isFenceWithFile(line) THEN
      scan(lines, afterBlock(lines, i + 1),
           IF fenceWithFilePath(line) # <<>>
           THEN Append(files, FileChange(fenceWithFilePath(line), blockLines(lines, i + 1)))
           ELSE files,
           deps, firstFile(first, i))
    ELSE IF StartsWith(line, FENCE) THEN
      LET extracted == extractFileMarkerFromFence(blockLines(lines, i + 1))
      IN IF extracted.found
         THEN scan(lines, afterBlock(lines, i + 1),
                   Append(files, [path |-> extracted.filePath, content |-> extracted.content]),
                   deps, firstFile(first, i))
         ELSE scan(lines, afterBlock(lines, i + 1), files, deps, first)
    ELSE scan(lines, i + 1, files, deps, first)

\* Array.from(new Set(deps.map((d) => d.trim()).filter(Boolean)))
uniqDeps_DedupeFirst(deps) == nonEmpty(trimAll(Dedupe(deps)))
uniqDeps(deps) == Dedupe(nonEmpty(trimAll(deps)))

parseAiResponse(raw) ==
  LET lines == SplitOn(replaceCrLf(raw), NL)
      r == scan(lines, 1, <<>>, <<>>, 0)
  IN [summary |-> IF r.first = 0 THEN safeTrim(raw)
                  ELSE safeTrim(JoinWith(SubSeq(lines, 1, r.first - 1), NL)),
      files |-> r.files,
      dependencies |-> uniqDeps(r.deps)]

\* runAiAndApply hands the text of the model's reply to parseAiResponse
parseReply ==
  /\ parser.pc = "input"
  /\ parser' = [parser EXCEPT !.pc = "parsed", !.out = parseAiResponse(parser.raw)]

\* The replies handed to the parser: a summary paragraph, then "File: path"
\* lines each followed by a fenced block, then possibly a Dependencies line.
MaxSegs == 2

Ts == <<"t", "s">>
Paragraphs ==
  { << <<>> >>,
    << <<"H", "i">> >>,
    << <<" ", "H", "i", ".">>, <<"P", "r", "o", "f", "i", "l", "e", ":", " ", "x", " ">> >> }
SegPaths == { <<"a", ".", "t", "s">>, <<".", "/", "s", "r", "c", "/", "b">> }
\* the lines of a file's content; no line of it starts with a fence
SegContents ==
  { << <<>> >>,
    << <<"x">> >>,
    << <<>>, <<" ", "x", "=", "1">> >>,
    << <<"/", "/", " ", "F", "i", "l", "e", ":", " ", "q">>, <<"y">> >>,
    << <<"D", "e", "p", "e", "n", "d", "e", "n", "c", "i", "e", "s", ":", " ",
         "[", "\"", "z", "\"", "]">> >> }
Segments == [path : SegPaths, lines : SegContents]
ReplyNames == { <<"a", "b">>, <<"c">> }
NoDepsLine == [given |-> FALSE, loose |-> FALSE, names |-> <<>>]
DepsLines ==
  {NoDepsLine} \cup [given : {TRUE}, loose : BOOLEAN, names : SeqsUpTo(ReplyNames, MaxDeps)]

FileLabel == <<"F", "i", "l", "e", ":", " ">>
DependenciesLabel ==
  <<"D", "e", "p", "e", "n", "d", "e", "n", "c", "i", "e", "s", ":", " ">>

segmentLines(seg) == << FileLabel \o seg.path, FENCE \o Ts >> \o seg.lines \o << FENCE >>
\* ["ab", "c"] as JSON, [ab, c] in the loose notation
nameList(names, loose) ==
  <<"[">> \o
  JoinWith([i \in 1..Len(names) |->
              IF loose THEN names[i] ELSE <<"\"">> \o names[i] \o <<"\"">>], ",")
  \o <<"]">>
replyLines(para, segs, deps) ==
  para
  \o Flatten([i \in 1..Len(segs) |-> segmentLines(segs[i])])
  \o (IF deps.given THEN << DependenciesLabel \o nameList(deps.names, deps.loose) >> ELSE <<>>)
replyText(para, segs, deps) == JoinWith(replyLines(para, segs, deps), NL)

InitParse ==
  /\ PreviewInit
  /\ ApplyIdle
  /\ FixIdle
  /\ LogIdle
  /\ HistoryIdle
  /\ RepairIdle
  /\ \E para \in Paragraphs, segs \in SeqsUpTo(Segments, MaxSegs), deps \in DepsLines :
       parser = [pc |-> "input", para |-> para, segs |-> segs, deps |-> deps,
                 raw |-> replyText(para, segs, deps), out |-> NoResult]

NextParse ==
  \/ parseReply /\ UNCHANGED <<previewVars, applyVars, fixVars, repairVars, logVars, historyVars>>

SpecParse == InitParse /\ [][NextParse]_vars

\* The replies that declare one file in one of the surface forms of
\* parseAiResponse: the same path and content lines, written as
\*   file        File: p, fence, content, fence
\*   heading     p, fence, content, fence
\*   fenceFile   fence + "file p", content, fence
\*   hintEq      fence + "ts file=p", content, fence
\*   hintName    fence + "ts filename: p", content, fence
\*   markLine    fence, // File: p, content, fence
\*   markBlock   fence, /* File: p */, content, fence
\*   markHash    fence, # File: p, content, fence
\*   markHtml    fence, <!-- File: p -->, content, fence
\*   markBare    fence, File: p, content, fence
\*   noFence     File: p, content          (no fenced block follows)
Forms ==
  { "file", "heading", "fenceFile", "hintEq", "hintName", "markLine", "markBlock",
    "markHash", "markHtml", "markBare", "noFence" }
FormPaths == { <<"a", ".", "t", "s">>, <<".", "/", "b", ".", "t", "s">> }
FormContents ==
  { << <<"x">> >>,
    << <<"x">>, <<" ", "y">> >>,
    << <<>>, <<"x">> >>,
    << <<"/", "/", " ", "F", "i", "l", "e", ":", " ", "q">>, <<"y">> >> }
FormSegments == [path : FormPaths, lines : FormContents, form : Forms]

FileWordSp == <<"f", "i", "l", "e", " ">>
HintEq == <<"t", "s", " ", "f", "i", "l", "e", "=">>
HintName == <<"t", "s", " ", "f", "i", "l", "e", "n", "a", "m", "e", ":", " ">>
formLines(seg) ==
  LET fenced(open, first) == << open >> \o first \o seg.lines \o << FENCE >>
  IN CASE seg.form = "file" -> << FileLabel \o seg.path >> \o fenced(FENCE \o Ts, <<>>)
       [] seg.form = "heading" -> << seg.path >> \o fenced(FENCE \o Ts, <<>>)
       [] seg.form = "fenceFile" -> fenced(FENCE \o FileWordSp \o seg.path, <<>>)
       [] seg.form = "hintEq" -> fenced(FENCE \o HintEq \o seg.path, <<>>)
       [] seg.form = "hintName" -> fenced(FENCE \o HintName \o seg.path, <<>>)
       [] seg.form = "markLine" ->
            fenced(FENCE \o Ts, << <<"/", "/", " ">> \o FileLabel \o seg.path >>)
       [] seg.form = "markBlock" ->
            fenced(FENCE \o Ts,
                   << <<"/", "*", " ">> \o FileLabel \o seg.path \o <<" ", "*", "/">> >>)
       [] seg.form = "markHash" ->
            fenced(FENCE \o Ts, << <<"#", " ">> \o FileLabel \o seg.path >>)
       [] seg.form = "markHtml" ->
            fenced(FENCE \o Ts,
                   << <<"<", "!", "-", "-", " ">> \o FileLabel \o seg.path
                      \o <<" ", "-", "-", ">">> >>)
       [] seg.form = "markBare" -> fenced(FENCE \o Ts, << FileLabel \o seg.path >>)
       [] seg.form = "noFence" -> << FileLabel \o seg.path >> \o seg.lines
formText(para, seg) == JoinWith(para \o formLines(seg), NL)

InitForms ==
  /\ PreviewInit
  /\ ApplyIdle
  /\ FixIdle
  /\ LogIdle
  /\ HistoryIdle
  /\ RepairIdle
  /\ \E para \in Paragraphs, seg \in FormSegments :
       parser = [pc |-> "input", para |-> para, segs |-> << seg >>, deps |-> NoDepsLine,
                 raw |-> formText(para, seg), out |-> NoResult]

NextForms ==
  \/ parseReply /\ UNCHANGED <<previewVars, applyVars, fixVars, repairVars, logVars, historyVars>>

SpecForms == InitForms /\ [][NextForms]_vars

\* The replies that declare dependencies once or twice: each declaration is
\* a Dependencies line with a JSON array, one with an unquoted list, or a
\* bare Dependencies: line followed by a bulleted list of two names or more;
\* a blank line ends each declaration and a file whose content has a
\* Dependencies line of its own stands between the two.
DeclNames == { <<"a", "b">>, <<"c">>, <<" ", "c">>, <<"C">> }
DeclStyles == {"json", "loose", "bullets"}
Declarations ==
  { d \in [style : DeclStyles, names : SeqsUpTo(DeclNames, MaxDeps)] :
      d.style = "bullets" => Len(d.names) >= 2 }
DependenciesBare == <<"D", "e", "p", "e", "n", "d", "e", "n", "c", "i", "e", "s", ":">>
declLines(d) ==
  IF d.style = "bullets"
  THEN << DependenciesBare >> \o [i \in 1..Len(d.names) |-> <<"-", " ">> \o d.names[i]]
       \o << <<>> >>
  ELSE << DependenciesLabel \o nameList(d.names, d.style = "loose"), <<>> >>
BetweenSegment ==
  [path |-> <<"a", ".", "t", "s">>,
   lines |-> << <<"D", "e", "p", "e", "n", "d", "e", "n", "c", "i", "e", "s", ":", " ",
                  "[", "\"", "z", "\"", "]">> >>]
declText(decls) ==
  JoinWith(<< <<"H", "i">> >> \o declLines(decls[1]) \o segmentLines(BetweenSegment)
           \o (IF Len(decls) = 2 THEN declLines(decls[2]) ELSE <<>>), NL)

InitDeps ==
  /\ PreviewInit
  /\ ApplyIdle
  /\ FixIdle
  /\ LogIdle
  /\ HistoryIdle
  /\ RepairIdle
  /\ \E n \in {1, 2} : \E decls \in [1..n -> Declarations] :
       parser = [pc |-> "input", para |-> << <<"H", "i">> >>, segs |-> << BetweenSegment >>,
                 deps |-> decls, raw |-> declText(decls), out |-> NoResult]

NextDeps ==
  \/ parseReply /\ UNCHANGED <<previewVars, applyVars, fixVars, repairVars, logVars, historyVars>>

SpecDeps == InitDeps /\ [][NextDeps]_vars

\* ------------------------------------------------------------------------
\* Routed-page files: the client marker and the page-metadata exports, as
\* the change applier (sanitizeNextFileContent) and the repair pass (fixup
\* 3.5) treat them.  A file's content is its text, a sequence of characters;
\* positions count from 1, and 0 stands for "no match".
\* ------------------------------------------------------------------------

\* the least and the greatest position of a set of positions, 0 when empty
firstOf(S) == IF S = {} THEN 0 ELSE CHOOSE x \in S : \A y \in S : x <= y
lastOf(S) == IF S = {} THEN 0 ELSE CHOOSE x \in S : \A y \in S : x >= y

startsAt(s, p, w) == p >= 1 /\ p + Len(w) - 1 <= Len(s) /\ SubSeq(s, p, p + Len(w) - 1) = w
\* \s* from position i: the position of the first character that is no white space
skipWs(s, i) ==
  IF \A k \in i..Len(s) : IsSpace(s[k]) THEN Len(s) + 1
  ELSE CHOOSE k \in i..Len(s) : ~IsSpace(s[k]) /\ \A j \in i..(k - 1) : IsSpace(s[j])
\* ^ and $ under the m flag (the texts hold no CR)
atLineStart(s, p) == p = 1 \/ (p >= 2 /\ p <= Len(s) + 1 /\ s[p - 1] = NL)
atLineEnd(s, p) == p = Len(s) + 1 \/ (p >= 1 /\ p <= Len(s) /\ s[p] = NL)
\* \b before and after a word: the neighbour is no word character
wordStartsAt(s, p) == p = 1 \/ ~IsWord(s[p - 1])
wordEndsAt(s, p) == p > Len(s) \/ ~IsWord(s[p])

\* the pieces of the regular expressions
Lit(w) == [k |-> "lit", w |-> w]
Ws0 == [k |-> "ws0", w |-> <<>>]
Ws1 == [k |-> "ws1", w |-> <<>>]
Quote == [k |-> "quote", w |-> <<>>]
\* [^xy]*[xy] for the characters of enders
Until(enders) == [k |-> "until", w |-> enders]
WordStart == [k |-> "wordStart", w |-> <<>>]
WordEnd == [k |-> "wordEnd", w |-> <<>>]

\* the position after the match of the pieces pat at position p of s, 0 if
\* they do not match there (\s* and \s+ take all the white space there is:
\* no piece that follows one of them begins with white space)
RECURSIVE matchAt(_, _, _)
matchAt(s, p, pat) ==
  IF pat = <<>> THEN p
  ELSE CASE Head(pat).k = "lit" ->
              IF startsAt(s, p, Head(pat).w) THEN matchAt(s, p + Len(Head(pat).w), Tail(pat)) ELSE 0
         [] Head(pat).k = "ws0" -> matchAt(s, skipWs(s, p), Tail(pat))
         [] Head(pat).k = "ws1" ->
              IF p <= Len(s) /\ IsSpace(s[p]) THEN matchAt(s, skipWs(s, p), Tail(pat)) ELSE 0
         [] Head(pat).k = "quote" ->
              IF p <= Len(s) /\ IsQuote(s[p]) THEN matchAt(s, p + 1, Tail(pat)) ELSE 0
         [] Head(pat).k = "until" ->
              IF firstOf({k \in p..Len(s) : s[k] \in Head(pat).w}) = 0 THEN 0
              ELSE matchAt(s, firstOf({k \in p..Len(s) : s[k] \in Head(pat).w}) + 1, Tail(pat))
         [] Head(pat).k = "wordStart" -> IF wordStartsAt(s, p) THEN matchAt(s, p, Tail(pat)) ELSE 0
         [] Head(pat).k = "wordEnd" -> IF wordEndsAt(s, p) THEN matchAt(s, p, Tail(pat)) ELSE 0

\* RegExp.prototype.test for a list of pieces
test(s, pat) == \E p \in 1..Len(s) : matchAt(s, p, pat) # 0
\* RegExp.prototype.exec(...).index for a list of pieces
execIndex(s, pat) == firstOf({p \in 1..Len(s) : matchAt(s, p, pat) # 0})

\* \s*$ after position e: the last end of a line that only white space
\* separates from e
lineEndFrom(s, e) ==
  IF e = 0 THEN 0 ELSE lastOf({q \in e..skipWs(s, e) : atLineEnd(s, q)})
\* ;?\s*$ at position p: the semicolon is taken if a line ends after it
semiEol(s, p) ==
  IF startsAt(s, p, <<";">>) /\ lineEndFrom(s, p + 1) # 0 THEN lineEndFrom(s, p + 1)
  ELSE 0
\* the end of what follows the pieces of a line's pattern, from position e:
\*   "eol"    ;?\s*$         "wsEol"   \s*;?\s*$
\*   "eat"    ;?\s*\n?       "wsEat"   \s*;?\s*\n?  (and \s*;?\s*)
\*   "semi"   ;?             "wsSemi"  \s*;?
\*   "ws"     \s*            "none"    nothing
tailEnd(s, e, tail) ==
  IF e = 0 THEN 0
  ELSE CASE tail = "none" -> e
         [] tail = "ws" -> skipWs(s, e)
         [] tail = "semi" -> IF startsAt(s, e, <<";">>) THEN e + 1 ELSE e
         [] tail = "wsSemi" ->
              IF startsAt(s, skipWs(s, e), <<";">>) THEN skipWs(s, e) + 1 ELSE skipWs(s, e)
         [] tail = "eol" -> IF semiEol(s, e) # 0 THEN semiEol(s, e) ELSE lineEndFrom(s, e)
         [] tail = "wsEol" ->
              IF semiEol(s, skipWs(s, e)) # 0 THEN semiEol(s, skipWs(s, e))
              ELSE lineEndFrom(s, e)
         [] tail = "eat" -> skipWs(s, IF startsAt(s, e, <<";">>) THEN e + 1 ELSE e)
         [] tail = "wsEat" ->
              skipWs(s, IF startsAt(s, skipWs(s, e), <<";">>) THEN skipWs(s, e) + 1 ELSE e)
\* the end of the match of ^pat followed by the tail, at position p
lineMatch(s, p, pat, tail) ==
  IF ~atLineStart(s, p) THEN 0 ELSE tailEnd(s, matchAt(s, p, pat), tail)
firstLineMatch(s, from, pat, tail) ==
  firstOf({p \in from..(Len(s) + 1) : lineMatch(s, p, pat, tail) # 0})

\* String.prototype.replace with the g and m flags for ^pat and its tail,
\* the search resuming at position from
RECURSIVE replaceLines(_, _, _, _, _)
replaceLines(s, from, pat, tail, by) ==
  IF firstLineMatch(s, from, pat, tail) = 0 THEN SubSeq(s, from, Len(s))
  ELSE SubSeq(s, from, firstLineMatch(s, from, pat, tail) - 1) \o by
       \o replaceLines(s, lineMatch(s, firstLineMatch(s, from, pat, tail), pat, tail),
                       pat, tail, by)
\* String.prototype.replace with the g flag for pat and its tail, anywhere
firstMatch(s, from, pat) == firstOf({p \in from..Len(s) : matchAt(s, p, pat) # 0})
RECURSIVE replaceAll(_, _, _, _, _)
replaceAll(s, from, pat, tail, by) ==
  IF firstMatch(s, from, pat) = 0 THEN SubSeq(s, from, Len(s))
  ELSE SubSeq(s, from, firstMatch(s, from, pat) - 1) \o by
       \o replaceAll(s, tailEnd(s, matchAt(s, firstMatch(s, from, pat), pat), tail),
                     pat, tail, by)
\* the same without the g flag: the first match only
replaceLine(s, pat, tail, by) ==
  IF firstLineMatch(s, 1, pat, tail) = 0 THEN s
  ELSE SubSeq(s, 1, firstLineMatch(s, 1, pat, tail) - 1) \o by
       \o SubSeq(s, lineMatch(s, firstLineMatch(s, 1, pat, tail), pat, tail), Len(s))

ImportWord == <<"i", "m", "p", "o", "r", "t">>
FromWord == <<"f", "r", "o", "m">>
ExportWord == <<"e", "x", "p", "o", "r", "t">>
MetadataType == <<"M", "e", "t", "a", "d", "a", "t", "a">>
ReactRouterDom == <<"r", "e", "a", "c", "t", "-", "r", "o", "u", "t", "e", "r", "-", "d", "o", "m">>
NextLinkImport == <<"i", "m", "p", "o", "r", "t", " ", "L", "i", "n", "k", " ", "f", "r", "o",
    "m", " ", "'", "n", "e", "x", "t", "/", "l", "i", "n", "k", "'">>
MetadataImport == <<"i", "m", "p", "o", "r", "t", " ", "t", "y", "p", "e", " ", "{", " ", "M",
    "e", "t", "a", "d", "a", "t", "a", " ", "}", " ", "f", "r", "o", "m", " ", "'", "n", "e", "x",
        "t", "'">>

\* /^\s*import\s+Link\s+from\s+['"]react-router-dom['"];?\s*$/gm
linkDefaultImport ==
  <<Ws0, Lit(ImportWord), Ws1, Lit(<<"L", "i", "n", "k">>), Ws1, Lit(FromWord), Ws1,
    Quote, Lit(ReactRouterDom), Quote>>
\* /^\s*import\s+\{\s*Link\s*\}\s+from\s+['"]react-router-dom['"];?\s*$/gm
linkNamedImport ==
  <<Ws0, Lit(ImportWord), Ws1, Lit(<<"{">>), Ws0, Lit(<<"L", "i", "n",
      "k">>), Ws0, Lit(<<"}">>), Ws1,
    Lit(FromWord), Ws1, Quote, Lit(ReactRouterDom), Quote>>
\* /^\s*import\s+\{\s*Metadata\s*\}\s+from\s+['"]next\/navigation['"];?\s*$/gm
metadataFromNavigation ==
  <<Ws0, Lit(ImportWord), Ws1, Lit(<<"{">>), Ws0, Lit(MetadataType), Ws0, Lit(<<"}">>), Ws1,
    Lit(FromWord), Ws1, Quote, Lit(<<"n", "e", "x", "t", "/", "n", "a", "v", "i", "g", "a", "t",
        "i", "o", "n">>), Quote>>
\* /^\s*import\s+type\s*\{\s*Metadata\s*\}\s+from\s+['"]next['"];?\s*\n?/gm
metadataTypeImport ==
  <<Ws0, Lit(ImportWord), Ws1, Lit(<<"t", "y", "p", "e">>), Ws0, Lit(<<"{">>), Ws0, Lit(MetadataType), Ws0,
    Lit(<<"}">>), Ws1, Lit(FromWord), Ws1, Quote, Lit(<<"n", "e", "x", "t">>), Quote>>

\* /<Link(\s[^>]*?)\bto=/ at position p: the position of "to=", 0 if no match
linkToAt(s, p) ==
  IF startsAt(s, p, <<"<", "L", "i", "n", "k">>) /\ p + 5 <= Len(s) /\ IsSpace(s[p + 5])
  THEN firstOf({t \in (p + 6)..Len(s) :
                  /\ startsAt(s, t, <<"t", "o", "=">>)
                  /\ ~IsWord(s[t - 1])
                  /\ \A k \in (p + 6)..(t - 1) : s[k] # ">"})
  ELSE 0
firstLinkTo(s, from) == firstOf({p \in from..Len(s) : linkToAt(s, p) # 0})
\* out.replace(/<Link(\s[^>]*?)\bto=/g, "<Link$1href=")
RECURSIVE replaceLinkTo(_, _)
replaceLinkTo(s, from) ==
  IF firstLinkTo(s, from) = 0 THEN SubSeq(s, from, Len(s))
  ELSE SubSeq(s, from, linkToAt(s, firstLinkTo(s, from)) - 1) \o <<"h", "r", "e", "f", "=">>
       \o replaceLinkTo(s, linkToAt(s, firstLinkTo(s, from)) + 3)

\* /^\s*import\s+[^;]*globals\.css['"];?\s*$/ at position p: the end of the
\* match, 0 if none ([^;]* takes as much as it can)
globalsTail(s, g) == tailEnd(s, matchAt(s, g, <<Lit(<<"g", "l", "o", "b", "a", "l", "s", ".", "c",
    "s", "s">>), Quote>>), "eol")
globalsFrom(s, e) ==
  IF e = 0 THEN 0
  ELSE lastOf({g \in e..Len(s) : /\ \A k \in e..(g - 1) : s[k] # ";"
                                 /\ globalsTail(s, g) # 0})
globalsImportAt(s, p) ==
  IF ~atLineStart(s, p) THEN 0
  ELSE IF globalsFrom(s, matchAt(s, p, <<Ws0, Lit(ImportWord), Ws1>>)) = 0 THEN 0
  ELSE globalsTail(s, globalsFrom(s, matchAt(s, p, <<Ws0, Lit(ImportWord), Ws1>>)))
firstGlobalsImport(s, from) == firstOf({p \in from..Len(s) : globalsImportAt(s, p) # 0})
\* out.replace(/^\s*import\s+[^;]*globals\.css['"];?\s*$/gm, "")
RECURSIVE removeGlobalsImports(_, _)
removeGlobalsImports(s, from) ==
  IF firstGlobalsImport(s, from) = 0 THEN SubSeq(s, from, Len(s))
  ELSE SubSeq(s, from, firstGlobalsImport(s, from) - 1)
       \o removeGlobalsImports(s, globalsImportAt(s, firstGlobalsImport(s, from)))

\* s without its characters from position p up to position e - 1
cut(s, p, e) == SubSeq(s, 1, p - 1) \o SubSeq(s, e, Len(s))

HeadLines == 30
lineBreaks(s) == SelectSeq([i \in 1..Len(s) |-> i], LAMBDA i : s[i] = NL)
\* out.split(/\r?\n/).slice(0, 30).join("\n")
headOf(s) ==
  IF Len(lineBreaks(s)) >= HeadLines THEN SubSeq(s, 1, lineBreaks(s)[HeadLines] - 1) ELSE s

\* ^\s*['"]use client['"]
useClient == <<Ws0, Quote, Lit(<<"u", "s", "e", " ", "c", "l", "i", "e", "n", "t">>), Quote>>
\* /^\s*['"]use client['"]\s*;?\s*$/m.test(s)
hasUseClient(s) == firstLineMatch(s, 1, useClient, "wsEol") # 0

\* export\s+const\s+metadata and export\s+(?:async\s+)?function\s+generateMetadata
exportConstMetadata == <<Lit(ExportWord), Ws1, Lit(<<"c", "o", "n", "s", "t">>), Ws1, Lit(<<"m",
    "e", "t", "a", "d", "a", "t", "a">>)>>
exportGenerateMetadata ==
  <<Lit(ExportWord), Ws1, Lit(<<"f", "u", "n", "c", "t", "i", "o", "n">>), Ws1, Lit(<<"g", "e",
      "n", "e", "r", "a", "t", "e", "M", "e", "t", "a", "d", "a", "t", "a">>)>>
exportAsyncGenerateMetadata ==
  <<Lit(ExportWord), Ws1, Lit(<<"a", "s", "y", "n", "c">>), Ws1, Lit(<<"f", "u", "n", "c", "t",
      "i", "o", "n">>), Ws1, Lit(<<"g", "e", "n", "e", "r", "a", "t", "e", "M", "e", "t", "a",
          "d", "a", "t", "a">>)>>
\* \b before and after
wordBounded(pat) == <<WordStart>> \o pat \o <<WordEnd>>

clientHooks ==
  { <<"S", "t", "a", "t", "e">>, <<"E", "f", "f", "e", "c", "t">>, <<"L", "a", "y", "o", "u", "t",
      "E", "f", "f", "e", "c", "t">>, <<"M", "e", "m", "o">>, <<"C", "a", "l", "l", "b", "a", "c",
          "k">>, <<"R", "e", "f">>, <<"R", "e", "d", "u", "c", "e", "r">>, <<"T", "r", "a", "n",
              "s", "i", "t", "i", "o", "n">>,
    <<"D", "e", "f", "e", "r", "r", "e", "d", "V", "a", "l", "u", "e">>, <<"O", "p", "t", "i",
        "m", "i", "s", "t", "i", "c">>, <<"S", "y", "n", "c", "E", "x", "t", "e", "r", "n", "a",
            "l", "S", "t", "o", "r", "e">>, <<"I", "d">> }
routerHooks == { <<"P", "a", "t", "h", "n", "a", "m", "e">>, <<"S", "e", "a", "r", "c", "h", "P",
    "a", "r", "a", "m", "s">>, <<"P", "a", "r", "a", "m", "s">>, <<"R", "o", "u", "t", "e", "r">> }
\* /use(A|B|...)/.test(s), and /\buse(A|B|...)\b/.test(s) when whole
usesHook(s, names, whole) ==
  \E p \in 1..Len(s) :
    /\ s[p] = "u"
    /\ startsAt(s, p, <<"u", "s", "e">>)
    /\ whole => wordStartsAt(s, p)
    /\ \E n \in names : startsAt(s, p + 3, n) /\ (whole => wordEndsAt(s, p + 3 + Len(n)))
\* /from\s+['"]next\/navigation['"]/ and /onClick\s*=/
fromNextNavigation == <<Lit(FromWord), Ws1, Quote, Lit(<<"n", "e", "x", "t", "/", "n", "a", "v",
    "i", "g", "a", "t", "i", "o", "n">>), Quote>>
onClickHandler == <<Lit(<<"o", "n", "C", "l", "i", "c", "k">>), Ws0, Lit(<<"=">>)>>

\* the change applier's tests (apply.ts)
hasMetadataExport(s) ==
  \/ test(s, wordBounded(exportConstMetadata))
  \/ test(s, wordBounded(exportGenerateMetadata))
  \/ test(s, wordBounded(exportAsyncGenerateMetadata))
usesClientOnly(s) ==
  \/ usesHook(s, clientHooks, TRUE)
  \/ usesHook(s, routerHooks, TRUE)
  \/ test(s, fromNextNavigation)
  \/ test(s, onClickHandler)

\* ^\s*\}[^\n]*;\s*\n? (semi) and ^\s*\}\s*\n? at line start q: the end of
\* the match, 0 if none
lastSemiOnLine(s, b) ==
  lastOf({k \in b..Len(s) : s[k] = ";" /\ \A j \in b..(k - 1) : s[j] # NL})
closingAfterBrace(s, b, semi) ==
  IF ~semi THEN skipWs(s, b)
  ELSE IF lastSemiOnLine(s, b) = 0 THEN 0
  ELSE skipWs(s, lastSemiOnLine(s, b) + 1)
closingBrace(s, q, semi) ==
  IF atLineStart(s, q) /\ startsAt(s, skipWs(s, q), <<"}">>)
  THEN closingAfterBrace(s, skipWs(s, q) + 1, semi)
  ELSE 0
\* [\s\S]*? and then the closing line, after the export's beginning ends at e
exportEndFrom(s, e, semi) ==
  IF e = 0 THEN 0
  ELSE IF firstOf({q \in e..(Len(s) + 1) : closingBrace(s, q, semi) # 0}) = 0 THEN 0
  ELSE closingBrace(s, firstOf({q \in e..(Len(s) + 1) : closingBrace(s, q, semi) # 0}), semi)
\* /^\s*export\s+const\s+metadata\b[\s\S]*?^\s*\}[^\n]*;\s*\n?/m at position p
metadataConstAt(s, p) ==
  IF ~atLineStart(s, p) THEN 0
  ELSE exportEndFrom(s, matchAt(s, p, <<Ws0>> \o exportConstMetadata \o <<WordEnd>>), TRUE)
\* /^\s*export\s+(?:async\s+)?function\s+generateMetadata\b[\s\S]*?^\s*\}\s*\n?/m
generateMetadataBegin(s, p) ==
  IF matchAt(s, p, <<Ws0>> \o exportAsyncGenerateMetadata \o <<WordEnd>>) # 0
  THEN matchAt(s, p, <<Ws0>> \o exportAsyncGenerateMetadata \o <<WordEnd>>)
  ELSE matchAt(s, p, <<Ws0>> \o exportGenerateMetadata \o <<WordEnd>>)
generateMetadataAt(s, p) ==
  IF ~atLineStart(s, p) THEN 0 ELSE exportEndFrom(s, generateMetadataBegin(s, p), FALSE)
removeMetadataConst(s) ==
  IF firstOf({p \in 1..Len(s) : metadataConstAt(s, p) # 0}) = 0 THEN s
  ELSE cut(s, firstOf({p \in 1..Len(s) : metadataConstAt(s, p) # 0}),
           metadataConstAt(s, firstOf({p \in 1..Len(s) : metadataConstAt(s, p) # 0})))
removeGenerateMetadata(s) ==
  IF firstOf({p \in 1..Len(s) : generateMetadataAt(s, p) # 0}) = 0 THEN s
  ELSE cut(s, firstOf({p \in 1..Len(s) : generateMetadataAt(s, p) # 0}),
           generateMetadataAt(s, firstOf({p \in 1..Len(s) : generateMetadataAt(s, p) # 0})))
\* if (!/\bMetadata\b/.test(out)) out = out.replace(<the type import>, "")
dropUnusedMetadataImport(s) ==
  IF ~test(s, wordBounded(<<Lit(MetadataType)>>))
  THEN replaceLines(s, 1, metadataTypeImport, "eat", <<>>)
  ELSE s

\* apply.ts 101-124: the marker and a metadata export in one page file
resolveConflict_KeepBoth(s) == s
resolveConflict(s) ==
  IF ~(hasUseClient(headOf(s)) /\ hasMetadataExport(s)) THEN s
  ELSE IF ~usesClientOnly(s) THEN replaceLine(s, useClient, "wsEat", <<>>)
  ELSE dropUnusedMetadataImport(removeGenerateMetadata(removeMetadataConst(s)))

CodeExtensions == { <<"t", "s", "x">>, <<"t", "s">>, <<"j", "s", "x">>, <<"j", "s">> }
\* /\.(tsx|ts|jsx|js)$/ and /(^|\/)page\.(tsx|ts|jsx|js)$/
isCodeFile(p) == \E x \in CodeExtensions : EndsWith(p, <<".">> \o x)
isPageFile(p) ==
  \E x \in CodeExtensions : p = <<"p", "a", "g", "e", ".">> \o x \/ EndsWith(p, <<"/", "p", "a",
      "g", "e", ".">> \o x)
\* apply.ts 75-91: the rewrites of every code file
rewriteImports(s) ==
  replaceLines(
    replaceLinkTo(
      replaceLines(replaceLines(s, 1, linkDefaultImport, "eol", NextLinkImport),
                   1, linkNamedImport, "eol", NextLinkImport),
      1),
    1, metadataFromNavigation, "eol", MetadataImport)
\* apply.ts 96: a page file loses its imports of globals.css
withoutGlobalsImports(s) == removeGlobalsImports(rewriteImports(s), 1)
sanitizeCode(p, s) ==
  IF isPageFile(p) THEN resolveConflict(withoutGlobalsImports(s)) ELSE rewriteImports(s)
sanitizeNextFileContent(relPath, content) ==
  IF isCodeFile(ReplaceBackslash(relPath))
  THEN sanitizeCode(ReplaceBackslash(relPath), content)
  ELSE content

\* the repair pass's tests (types.ts 726-736): no \b, and the whole file
repairHasMetadataExport(s) ==
  \/ test(s, exportConstMetadata)
  \/ test(s, exportGenerateMetadata)
  \/ test(s, exportAsyncGenerateMetadata)
repairUsesClientOnly(s) ==
  \/ usesHook(s, clientHooks, FALSE)
  \/ usesHook(s, routerHooks, FALSE)
  \/ test(s, fromNextNavigation)
  \/ test(s, onClickHandler)

\* findMatchingBrace: the scan's state after a character
Scanner == [depth |-> 0, mode |-> "code", skip |-> FALSE, found |-> 0]
scanCode(st, c, n, i) ==
  IF c = "/" /\ n = "/" THEN [st EXCEPT !.mode = "inLine", !.skip = TRUE]
  ELSE IF c = "/" /\ n = "*" THEN [st EXCEPT !.mode = "inBlock", !.skip = TRUE]
  ELSE IF c = "'" THEN [st EXCEPT !.mode = "inS"]
  ELSE IF c = "\"" THEN [st EXCEPT !.mode = "inD"]
  ELSE IF c = BQ THEN [st EXCEPT !.mode = "inT"]
  ELSE IF c = "{" THEN [st EXCEPT !.depth = @ + 1]
  ELSE IF c = "}" THEN [st EXCEPT !.depth = @ - 1, !.found = IF st.depth = 1 THEN i ELSE 0]
  ELSE st
scanChar(st, c, n, i) ==
  IF st.found # 0 THEN st
  ELSE IF st.skip THEN [st EXCEPT !.skip = FALSE]
  ELSE IF st.mode = "inLine" THEN (IF c = NL THEN [st EXCEPT !.mode = "code"] ELSE st)
  ELSE IF st.mode = "inBlock"
    THEN (IF c = "*" /\ n = "/" THEN [st EXCEPT !.mode = "code", !.skip = TRUE] ELSE st)
  ELSE IF st.mode = "inS" THEN (IF c = "'" THEN [st EXCEPT !.mode = "code"] ELSE st)
  ELSE IF st.mode = "inD" THEN (IF c = "\"" THEN [st EXCEPT !.mode = "code"] ELSE st)
  ELSE IF st.mode = "inT" THEN (IF c = BQ THEN [st EXCEPT !.mode = "code"] ELSE st)
  ELSE scanCode(st, c, n, i)
\* the loop over the characters a..b, halving the range
RECURSIVE scanRange(_, _, _, _)
scanRange(s, a, b, st) ==
  IF a > b THEN st
  ELSE IF a = b THEN scanChar(st, s[a], IF a < Len(s) THEN s[a + 1] ELSE "", a)
  ELSE LET left == scanRange(s, a, (a + b) \div 2, st)
       IN IF left.found # 0 THEN left ELSE scanRange(s, ((a + b) \div 2) + 1, b, left)
findMatchingBrace(src, open) == scanRange(src, open, Len(src), Scanner).found

indexOfBrace(src, start) == firstOf({i \in start..Len(src) : src[i] = "{"})
\* the statement's end: past the next semicolon if there is one, else the
\* end of the text; then past the white space
statementEnd(src, braceEnd) ==
  IF firstOf({i \in (braceEnd + 1)..Len(src) : src[i] = ";"}) = 0 THEN Len(src) + 1
  ELSE skipWs(src, firstOf({i \in (braceEnd + 1)..Len(src) : src[i] = ";"}) + 1)
removeExportedObjectStatementAt(src, start) ==
  IF indexOfBrace(src, start) = 0 THEN src
  ELSE IF findMatchingBrace(src, indexOfBrace(src, start)) = 0 THEN src
  ELSE cut(src, start, statementEnd(src, findMatchingBrace(src, indexOfBrace(src, start))))
removeExportedFunctionAt(src, start) ==
  IF indexOfBrace(src, start) = 0 THEN src
  ELSE IF findMatchingBrace(src, indexOfBrace(src, start)) = 0 THEN src
  ELSE cut(src, start, skipWs(src, findMatchingBrace(src, indexOfBrace(src, start)) + 1))
stripGenerateMetadata(out) ==
  IF execIndex(out, exportAsyncGenerateMetadata \o <<WordEnd>>) # 0
     /\ (execIndex(out, exportGenerateMetadata \o <<WordEnd>>) = 0
         \/ execIndex(out, exportAsyncGenerateMetadata \o <<WordEnd>>)
              < execIndex(out, exportGenerateMetadata \o <<WordEnd>>))
  THEN removeExportedFunctionAt(out, execIndex(out, exportAsyncGenerateMetadata \o <<WordEnd>>))
  ELSE IF execIndex(out, exportGenerateMetadata \o <<WordEnd>>) # 0
  THEN removeExportedFunctionAt(out, execIndex(out, exportGenerateMetadata \o <<WordEnd>>))
  ELSE out
stripMetadataConst(out) ==
  IF execIndex(out, exportConstMetadata \o <<WordEnd>>) = 0 THEN out
  ELSE removeExportedObjectStatementAt(out, execIndex(out, exportConstMetadata \o <<WordEnd>>))
stripClientMetadataExports(src) == stripGenerateMetadata(stripMetadataConst(src))

\* writeText: the text gets a final line break if it has none
writeText(text) == IF EndsWith(text, <<NL>>) THEN text ELSE text \o <<NL>>

\* types.ts 730-744: what fixup 3.5 makes of a page with both
repairConflict(src) ==
  IF ~repairUsesClientOnly(src) THEN replaceLine(src, useClient, "wsEol", <<>>)
  ELSE stripClientMetadataExports(src)
\* types.ts 722-749 for one page candidate: the file's text afterwards
repairPage(src) ==
  IF src = <<>> THEN src
  ELSE IF ~(hasUseClient(src) /\ repairHasMetadataExport(src)) THEN src
  ELSE IF repairConflict(src) # src THEN writeText(repairConflict(src))
  ELSE src

\* The page files handed to the two passes: up to MaxBlocks pieces of code,
\* one after the other.  No piece has a blank line, and each ends its
\* statements with a semicolon or a closing brace.
MaxBlocks == 3

UseClientLine == <<"'", "u", "s", "e", " ", "c", "l", "i", "e", "n", "t", "'", ";">>
MetadataOneLine == <<"e", "x", "p", "o", "r", "t", " ", "c", "o", "n", "s", "t", " ", "m", "e",
    "t", "a", "d", "a", "t", "a", " ", "=", " ", "{", " ", "t", ":", " ", "1", " ", "}", ";">>
MetadataLines == <<"e", "x", "p", "o", "r", "t", " ", "c", "o", "n", "s", "t", " ", "m", "e", "t",
    "a", "d", "a", "t", "a", " ", "=", " ", "{">> \o <<NL>> \o <<" ", " ", "t", ":", " ", "1",
        ",">> \o <<NL>> \o <<"}", ";">>
GenerateMetadataLines ==
  <<"e", "x", "p", "o", "r", "t", " ", "a", "s", "y", "n", "c", " ", "f", "u", "n", "c", "t", "i",
      "o", "n", " ", "g", "e", "n", "e", "r", "a", "t", "e", "M", "e", "t", "a", "d", "a", "t",
          "a", "(", ")", " ", "{">> \o <<NL>> \o <<" ", " ", "r", "e", "t", "u", "r", "n", " ",
              "{", "}", ";">> \o <<NL>> \o <<"}">>
HookLine == <<"c", "o", "n", "s", "t", " ", "[", "a", "]", " ", "=", " ", "u", "s", "e", "S", "t",
    "a", "t", "e", "(", "0", ")", ";">>
CustomHookLine == <<"c", "o", "n", "s", "t", " ", "t", " ", "=", " ", "u", "s", "e", "I", "d",
    "l", "e", "T", "i", "m", "e", "r", "(", ")", ";">>
\* a comment of HeadLines lines
CommentLines == JoinWith([i \in 1..HeadLines |-> <<"/", "/">>], NL)
NavigationImportLine == <<"i", "m", "p", "o", "r", "t", " ", "{", " ", "M", "e", "t", "a", "d",
    "a", "t", "a", " ", "}", " ", "f", "r", "o", "m", " ", "\"", "n", "e", "x", "t", "/", "n",
        "a", "v", "i", "g", "a", "t", "i", "o", "n", "\"", ";">>
GlobalsImportLine == <<"i", "m", "p", "o", "r", "t", " ", "\"", ".", "/", "g", "l", "o", "b", "a",
    "l", "s", ".", "c", "s", "s", "\"", ";">>
TypeImportLine == <<"i", "m", "p", "o", "r", "t", " ", "t", "y", "p", "e", " ", "{", " ", "M",
    "e", "t", "a", "d", "a", "t", "a", " ", "}", " ", "f", "r", "o", "m", " ", "'", "n", "e", "x",
        "t", "'", ";">>
RouterImportLine == <<"i", "m", "p", "o", "r", "t", " ", "{", " ", "L", "i", "n", "k", " ", "}",
    " ", "f", "r", "o", "m", " ", "\"", "r", "e", "a", "c", "t", "-", "r", "o", "u", "t", "e",
        "r", "-", "d", "o", "m", "\"", ";">>
ComponentLines ==
  <<"e", "x", "p", "o", "r", "t", " ", "d", "e", "f", "a", "u", "l", "t", " ", "f", "u", "n", "c",
      "t", "i", "o", "n", " ", "P", "a", "g", "e", "(", ")", " ", "{">> \o <<NL>>
  \o <<" ", " ", "r", "e", "t", "u", "r", "n", " ", "<", "L", "i", "n", "k", " ", "t", "o", "=",
      "\"", "/", "a", "\"", ">", "x", "<", "/", "L", "i", "n", "k", ">", ";">> \o <<NL>> \o <<"}">>
PageBlocks ==
  { UseClientLine, MetadataOneLine, MetadataLines, GenerateMetadataLines, HookLine,
    CustomHookLine, CommentLines, NavigationImportLine, GlobalsImportLine, TypeImportLine,
    RouterImportLine, ComponentLines }
PageTexts == { JoinWith(bs, NL) : bs \in SeqsUpTo(PageBlocks, MaxBlocks) }

\* the paths the applier writes to, and the pages the repair pass reads
AppPage == <<"a", "p", "p", "/", "p", "a", "g", "e", ".", "t", "s", "x">>
SrcAppPage == <<"s", "r", "c", "/", "a", "p", "p", "/", "p", "a", "g", "e", ".", "t", "s", "x">>
AppliedPaths == { AppPage, <<"a", "p", "p", "/", "a", "/", "p", "a", "g", "e", ".", "j",
    "s">>, <<"a", "p", "p", "/", "m", "y", "p", "a", "g", "e", ".", "t", "s", "x">>, <<"a", "p",
        "p", "/", "a", ".", "c", "s", "s">> }
pageCandidates == { SrcAppPage, AppPage }
PageWrites ==
  [by : {"apply"}, path : AppliedPaths, isNextProject : {TRUE}]
  \cup [by : {"apply"}, path : {AppPage}, isNextProject : {FALSE}]
  \cup [by : {"repair"}, path : pageCandidates, isNextProject : {TRUE}]

\* writeFile of the change applier (apply.ts 135): the content that is written
writeFileContent ==
  /\ rp.pc = "page"
  /\ rp.by = "apply"
  /\ rp' = [rp EXCEPT !.pc = "done",
                      !.out = IF rp.isNextProject
                              THEN sanitizeNextFileContent(rp.path, rp.src)
                              ELSE rp.src]

\* fixup 3.5 of the repair pass on one of its page candidates
repairPageFile ==
  /\ rp.pc = "page"
  /\ rp.by = "repair"
  /\ rp' = [rp EXCEPT !.pc = "done", !.out = repairPage(rp.src)]

InitPage ==
  /\ PreviewInit
  /\ ApplyIdle
  /\ FixIdle
  /\ LogIdle
  /\ HistoryIdle
  /\ ParseIdle
  /\ \E w \in PageWrites, src \in PageTexts :
       rp = [pc |-> "page", by |-> w.by, path |-> w.path, isNextProject |-> w.isNextProject,
             src |-> src, out |-> <<>>]

NextPage ==
  \/ writeFileContent /\ UNCHANGED <<previewVars, applyVars, fixVars, parseVars, logVars, historyVars>>
  \/ repairPageFile /\ UNCHANGED <<previewVars, applyVars, fixVars, parseVars, logVars, historyVars>>

SpecPage == InitPage /\ [][NextPage]_vars

\* ------------------------------------------------------------------------
\* The repair pass (repairProjectForPreview): the files of the project by
\* path, the manifest as it parses, and the fixups in the order of the code.
\* ------------------------------------------------------------------------
\* what a path holds when there is no file
NoFile == <<"ENOENT">>
fileExists(files, p) == files[p] # NoFile
\* find((p) => fileExists(p)) ?? null over a list of candidates
firstExisting(files, candidates) ==
  IF \A i \in 1..Len(candidates) : ~fileExists(files, candidates[i]) THEN "null"
  ELSE candidates[CHOOSE i \in 1..Len(candidates) :
                    /\ fileExists(files, candidates[i])
                    /\ \A j \in 1..(i - 1) : ~fileExists(files, candidates[j])]
\* readText(p) of a path or of null: null for a missing file
readText(files, p) == IF p = "null" THEN NoFile ELSE files[p]
\* !text : null or the empty string
isEmptyText(text) == text = NoFile \/ text = <<>>
\* text ?? ""
orEmpty(text) == IF text = NoFile THEN <<>> ELSE text

NextConfigType == <<"N", "e", "x", "t", "C", "o", "n", "f", "i", "g">>
\* convertNextConfigTsToMjs, step by step
dropConfigTypeImports(s) ==
  replaceAll(
    replaceAll(s, 1,
               <<Lit(ImportWord), Ws1, Lit(<<"t", "y", "p", "e">>), Ws0, Lit(<<"{">>), Ws0, Lit(NextConfigType), Ws0,
                 Lit(<<"}">>), Ws0, Lit(FromWord), Ws0, Quote, Lit(<<"n", "e", "x", "t">>), Quote>>,
               "wsEat", <<>>),
    1,
    <<Lit(ImportWord), Ws0, Lit(<<"{">>), Ws0, Lit(NextConfigType), Ws0, Lit(<<"}">>), Ws0,
      Lit(FromWord), Ws0, Quote, Lit(<<"n", "e", "x", "t">>), Quote>>,
    "wsEat", <<>>)
dropConfigAnnotations(s) ==
  replaceAll(
    replaceAll(s, 1, <<Lit(<<":">>), Ws0, Lit(NextConfigType), WordEnd>>, "none", <<>>),
    1, <<Ws1, Lit(<<"s", "a", "t", "i", "s", "f", "i", "e", "s">>), Ws1, Lit(NextConfigType), WordEnd>>, "none", <<>>)
moduleExports == <<Lit(<<"m", "o", "d", "u", "l", "e", ".", "e", "x", "p", "o", "r", "t",
    "s">>), Ws0, Lit(<<"=">>)>>
exportDefault(s) ==
  IF test(s, moduleExports) THEN replaceAll(s, 1, moduleExports, "ws", <<"e", "x", "p", "o", "r",
      "t", " ", "d", "e", "f", "a", "u", "l", "t", " ">>) ELSE s
ensureExportDefault(s) ==
  IF ~test(s, <<Lit(ExportWord), Ws1, Lit(<<"d", "e", "f", "a", "u", "l", "t">>), WordEnd>>)
     /\ test(s, <<Lit(<<"c", "o", "n", "s", "t">>), Ws1, Lit(<<"n", "e", "x", "t", "C", "o", "n",
         "f", "i", "g">>), Ws0, Lit(<<"=">>)>>)
  THEN s \o <<NL, NL>> \o <<"e", "x", "p", "o", "r", "t", " ", "d", "e", "f", "a", "u", "l", "t",
      " ", "n", "e", "x", "t", "C", "o", "n", "f", "i", "g", ";">> \o <<NL>>
  ELSE s
endWithNewline(s) == IF EndsWith(s, <<NL>>) THEN s ELSE s \o <<NL>>
convertNextConfigTsToMjs(ts) ==
  endWithNewline(
    ensureExportDefault(exportDefault(dropConfigAnnotations(dropConfigTypeImports(replaceCrLf(ts))))))

\* rewriteGeistFontsToInter, step by step
geistImport ==
  <<Lit(ImportWord), Ws0, Lit(<<"{">>), Ws0, Lit(<<"G", "e", "i", "s",
      "t">>), Ws0, Lit(<<",">>), Ws0, Lit(<<"G", "e", "i", "s", "t", "_", "M", "o", "n", "o">>),
    Ws0, Lit(<<"}">>), Ws0, Lit(FromWord), Ws0, Quote, Lit(<<"n", "e", "x", "t", "/", "f", "o",
        "n", "t", "/", "g", "o", "o", "g", "l", "e">>), Quote>>
renameGeist(s) ==
  replaceAll(
    replaceAll(
      replaceAll(s, 1, geistImport, "semi", <<"i", "m", "p", "o", "r", "t", " ", "{", " ", "I",
          "n", "t", "e", "r", ",", " ", "R", "o", "b", "o", "t", "o", "_", "M", "o", "n", "o",
              " ", "}", " ", "f", "r", "o", "m", " ", "\"", "n", "e", "x", "t", "/", "f", "o",
                  "n", "t", "/", "g", "o", "o", "g", "l", "e", "\"", ";">>),
      1, <<WordStart, Lit(<<"G", "e", "i", "s", "t", "_", "M", "o", "n",
          "o">>), WordEnd>>, "none", <<"R", "o", "b", "o", "t", "o", "_", "M", "o", "n", "o">>),
    1, <<WordStart, Lit(<<"G", "e", "i", "s", "t">>), WordEnd>>, "none", <<"I", "n", "t", "e",
        "r">>)
\* /subsets:\s*\[([^\]]+)\],\s*\}\);/ at position p: where the list begins,
\* where its ] is, and where the match ends (0 if there is no match)
subsetsBegin(s, p) == matchAt(s, p, <<Lit(<<"s", "u", "b", "s", "e", "t", "s",
    ":">>), Ws0, Lit(<<"[">>)>>)
subsetsClose(s, b) ==
  IF b = 0 \/ startsAt(s, b, <<"]">>) THEN 0 ELSE firstOf({k \in b..Len(s) : s[k] = "]"})
subsetsEnd(s, p) ==
  IF subsetsClose(s, subsetsBegin(s, p)) = 0 THEN 0
  ELSE matchAt(s, subsetsClose(s, subsetsBegin(s, p)), <<Lit(<<"]", ",">>), Ws0, Lit(<<"}", ")",
      ";">>)>>)
firstSubsets(s, from) == firstOf({p \in from..Len(s) : subsetsEnd(s, p) # 0})
displaySwap(s, p) ==
  <<"s", "u", "b", "s", "e", "t", "s", ":", " ", "[">> \o SubSeq(s, subsetsBegin(s, p), subsetsClose(s, subsetsBegin(s, p)) - 1)
  \o <<"]", ",">> \o <<NL>> \o <<" ", " ", "d", "i", "s", "p", "l", "a", "y", ":", " ", "\"", "s",
      "w", "a", "p", "\"", ",">> \o <<NL>> \o <<"}", ")", ";">>
RECURSIVE addDisplaySwap(_, _)
addDisplaySwap(s, from) ==
  IF firstSubsets(s, from) = 0 THEN SubSeq(s, from, Len(s))
  ELSE SubSeq(s, from, firstSubsets(s, from) - 1) \o displaySwap(s, firstSubsets(s, from))
       \o addDisplaySwap(s, subsetsEnd(s, firstSubsets(s, from)))
rewriteGeistFontsToInter(src) == addDisplaySwap(renameGeist(src), 1)

\* projectUsesTailwindV4(globalsCss, postcssCfg)
tailwindPostcss == <<Lit(<<"@", "t", "a", "i", "l", "w", "i", "n", "d", "c", "s", "s", "/", "p",
    "o", "s", "t", "c", "s", "s">>)>>
projectUsesTailwindV4(globalsCss, postcssCfg) ==
  \/ test(orEmpty(globalsCss), <<Lit(<<"@", "i", "m", "p", "o", "r",
      "t">>), Ws1, Quote, Lit(<<"t", "a", "i", "l", "w", "i", "n", "d", "c", "s", "s">>), Quote>>)
  \/ test(orEmpty(globalsCss), <<Lit(<<"@", "t", "h", "e", "m", "e">>), Ws1, Lit(<<"i", "n", "l",
      "i", "n", "e">>), WordEnd>>)
  \/ test(orEmpty(globalsCss), <<Lit(<<"@", "c", "u", "s", "t", "o", "m", "-", "v", "a", "r", "i",
      "a", "n", "t">>), Ws1, Lit(<<"d", "a", "r", "k">>), WordEnd>>)
  \/ test(orEmpty(postcssCfg), tailwindPostcss)

\* the texts the pass writes
expectedPostcss ==
  <<"c", "o", "n", "s", "t", " ", "c", "o", "n", "f", "i", "g", " ", "=", " ",
      "{">> \o <<NL>> \o <<" ", " ", "p", "l", "u", "g", "i", "n", "s", ":", " ", "{">> \o <<NL>>
  \o <<" ", " ", " ", " ", "\"", "@", "t", "a", "i", "l", "w", "i", "n", "d", "c", "s", "s", "/",
      "p", "o", "s", "t", "c", "s", "s", "\"", ":", " ", "{", "}", ",">> \o <<NL>> \o <<" ", " ",
          "}", ",">> \o <<NL>> \o <<"}", ";">> \o <<NL, NL>>
  \o <<"e", "x", "p", "o", "r", "t", " ", "d", "e", "f", "a", "u", "l", "t", " ", "c", "o", "n",
      "f", "i", "g", ";">> \o <<NL>>
minimalNextConfig ==
  <<"/", "*", "*", " ", "@", "t", "y", "p", "e", " ", "{", "i", "m", "p", "o", "r", "t", "(", "'",
      "n", "e", "x", "t", "'", ")", ".", "N", "e", "x", "t", "C", "o", "n", "f", "i", "g", "}",
          " ", "*", "/">> \o <<NL>> \o <<"c", "o", "n", "s", "t", " ", "n", "e", "x", "t", "C",
              "o", "n", "f", "i", "g", " ", "=", " ", "{", "}", ";">>
  \o <<NL, NL>> \o <<"e", "x", "p", "o", "r", "t", " ", "d", "e", "f", "a", "u", "l", "t", " ",
      "n", "e", "x", "t", "C", "o", "n", "f", "i", "g", ";">> \o <<NL>>
fixedLayout ==
  <<"i", "m", "p", "o", "r", "t", " ", "\"", ".", "/", "g", "l", "o", "b", "a", "l", "s", ".",
      "c", "s", "s", "\"", ";">> \o <<NL>> \o <<"i", "m", "p", "o", "r", "t", " ", "t", "y", "p",
          "e", " ", "{", " ", "M", "e", "t", "a", "d", "a", "t", "a", " ", "}", " ", "f", "r",
              "o", "m", " ", "\"", "n", "e", "x", "t", "\"", ";">> \o <<NL>>
  \o <<"i", "m", "p", "o", "r", "t", " ", "R", "e", "a", "c", "t", " ", "f", "r", "o", "m", " ",
      "\"", "r", "e", "a", "c", "t", "\"", ";">> \o <<NL, NL>>
  \o <<"e", "x", "p", "o", "r", "t", " ", "c", "o", "n", "s", "t", " ", "m", "e", "t", "a", "d",
      "a", "t", "a", ":", " ", "M", "e", "t", "a", "d", "a", "t", "a", " ", "=", " ",
          "{">> \o <<NL>> \o <<" ", " ", "t", "i", "t", "l", "e", ":", " ", "\"", "s", "t", "u",
              "d", "i", "o", " ", "A", "p", "p", "\"", ",">> \o <<NL>>
  \o <<" ", " ", "d", "e", "s", "c", "r", "i", "p", "t", "i", "o", "n", ":", " ", "\"", "G", "e",
      "n", "e", "r", "a", "t", "e", "d", " ", "b", "y", " ", "s", "t", "u", "d", "i", "o", "\"",
          ",">> \o <<NL>> \o <<"}", ";">> \o <<NL, NL>>
  \o <<"e", "x", "p", "o", "r", "t", " ", "d", "e", "f", "a", "u", "l", "t", " ", "f", "u", "n",
      "c", "t", "i", "o", "n", " ", "R", "o", "o", "t", "L", "a", "y", "o", "u", "t", "(", "{",
          " ", "c", "h", "i", "l", "d", "r", "e", "n", " ", "}", ":", " ", "{", " ", "c", "h",
              "i", "l", "d", "r", "e", "n", ":", " ", "R", "e", "a", "c", "t", ".", "R", "e", "a",
                  "c", "t", "N", "o", "d", "e", " ", "}", ")", " ", "{">>
  \o <<NL>> \o <<" ", " ", "r", "e", "t", "u", "r", "n", " ", "(">> \o <<NL>> \o <<" ", " ", " ",
      " ", "<", "h", "t", "m", "l", " ", "l", "a", "n", "g", "=", "\"", "e", "n", "\"",
          ">">> \o <<NL>>
  \o <<" ", " ", " ", " ", " ", " ", "<", "b", "o", "d", "y", " ", "c", "l", "a", "s", "s", "N",
      "a", "m", "e", "=", "\"", "m", "i", "n", "-", "h", "-", "s", "c", "r", "e", "e", "n", "\"",
          ">", "{", "c", "h", "i", "l", "d", "r", "e", "n", "}", "<", "/", "b", "o", "d", "y",
              ">">> \o <<NL>>
  \o <<" ", " ", " ", " ", "<", "/", "h", "t", "m", "l", ">">> \o <<NL>> \o <<" ", " ", ")",
      ";">> \o <<NL>> \o <<"}">> \o <<NL>>
\* the text of the Button component (types.ts 765-794), which no fixup reads:
\* one sign stands for it
buttonComponent == <<"button.tsx", NL>>

TAILWIND_V4 == <<"^", "4", ".", "1", ".", "1", "8">>
TAILWIND_POSTCSS_V4 == <<"^", "4", ".", "1", ".", "1", "8">>
TW_ANIMATE_CSS == <<"^", "1", ".", "4", ".", "0">>
NEXT_VERSION == <<"1", "4", ".", "2", ".", "3", "5">>
REACT_VERSION == <<"1", "8", ".", "3", ".", "1">>

\* the paths the pass looks at
NextConfigTs == "next.config.ts"
NextConfigMjs == "next.config.mjs"
NextConfigJs == "next.config.js"
PostcssMjs == "postcss.config.mjs"
PostcssJs == "postcss.config.js"
PostcssCjs == "postcss.config.cjs"
PackageJson == "package.json"
SrcAppLayout == "src/app/layout.tsx"
AppLayout == "app/layout.tsx"
SrcPage == "src/app/page.tsx"
RootPage == "app/page.tsx"
buttonRel == "src/components/ui/button.tsx"
bakOf(p) == p \o ".bak"
globalsCandidates ==
  <<"src/app/globals.css", "app/globals.css", "src/styles/globals.css", "styles/globals.css">>
postcssCandidates == <<PostcssMjs, PostcssJs, PostcssCjs>>
cfgCandidates == <<NextConfigMjs, NextConfigJs>>
layoutCandidates == <<SrcAppLayout, AppLayout>>
repairPageCandidates == <<SrcPage, RootPage>>
Renamed == {NextConfigTs, NextConfigMjs, NextConfigJs, PostcssMjs, PostcssJs, PostcssCjs}
Paths ==
  Renamed \cup {bakOf(p) : p \in Renamed} \cup {globalsCandidates[i] : i \in 1..4}
  \cup {SrcAppLayout, AppLayout, SrcPage, RootPage, buttonRel}

\* the manifest as readJson returns it: an object with its two dependency
\* sections, another JSON value (an array, a number or a string), or null
ManifestDeps ==
  {"next", "react", "react-dom", "tailwindcss", "@tailwindcss/postcss", "tw-animate-css",
   "next-pwa"}
NoVersion == <<"undefined">>
NoDeps == [n \in ManifestDeps |-> NoVersion]
NoManifest == [kind |-> "null", dependencies |-> NoDeps, devDependencies |-> NoDeps]

\* the project and the run of the pass over it: the files, the manifest, the
\* paths whose write fails, the flag of the pass and whether it has thrown
threw(w) == w.threw
raise(w) == [w EXCEPT !.threw = TRUE]
\* writeText(p, s): throws where the write fails
writeTextAt(w, p, s) ==
  IF threw(w) THEN w
  ELSE IF p \in w.readOnly THEN raise(w)
  ELSE [w EXCEPT !.files[p] = writeText(s)]
\* readJson(pkgPath)
readJson(w) == w.pkg
\* JSON.stringify of an array drops the properties put on it
writeJson(w, pkg) ==
  IF threw(w) THEN w
  ELSE IF PackageJson \in w.readOnly THEN raise(w)
  ELSE IF pkg.kind = "array" THEN w
  ELSE [w EXCEPT !.pkg = pkg]
\* renameToBak(p): the old .bak goes, the file takes its place
renameToBak(w, p) ==
  IF threw(w) THEN w
  ELSE [w EXCEPT !.files[bakOf(p)] = w.files[p], !.files[p] = NoFile]
setReinstall(w) == IF threw(w) THEN w ELSE [w EXCEPT !.reinstallDeps = TRUE]

\* 0) next.config.ts is converted or removed
fixupNextConfigTs(w) ==
  IF ~fileExists(w.files, NextConfigTs) THEN w
  ELSE renameToBak(
         IF ~fileExists(w.files, NextConfigMjs) /\ ~fileExists(w.files, NextConfigJs)
            /\ ~isEmptyText(w.files[NextConfigTs])
         THEN writeTextAt(w, NextConfigMjs, convertNextConfigTsToMjs(w.files[NextConfigTs]))
         ELSE w,
         NextConfigTs)

globalsPath(w) == firstExisting(w.files, globalsCandidates)
postcssPath(w) == firstExisting(w.files, postcssCandidates)
globalsCss(w) == readText(w.files, globalsPath(w))
postcssCfg(w) == readText(w.files, postcssPath(w))

\* 1) the PostCSS configuration of Tailwind v4
ensurePostcssConfig(w) ==
  IF postcssPath(w) # "null"
  THEN IF ~test(orEmpty(postcssCfg(w)), tailwindPostcss)
       THEN setReinstall(writeTextAt(renameToBak(w, postcssPath(w)), PostcssMjs, expectedPostcss))
       ELSE w
  ELSE setReinstall(writeTextAt(w, PostcssMjs, expectedPostcss))
\* x == null && y == null
bothNull(pkg, name) ==
  pkg.devDependencies[name] = NoVersion /\ pkg.dependencies[name] = NoVersion
\* the dependencies of Tailwind v4, one after the other
withTwAnimate(pkg) ==
  IF bothNull(pkg, "tw-animate-css")
  THEN [pkg EXCEPT !.dependencies["tw-animate-css"] = TW_ANIMATE_CSS]
  ELSE pkg
caret3 == <<"^", "3">>
withV4(pkg, name, version) ==
  IF bothNull(pkg, name) THEN [pkg EXCEPT !.devDependencies[name] = version]
  ELSE IF pkg.devDependencies[name] # NoVersion /\ StartsWith(pkg.devDependencies[name], caret3)
       THEN [pkg EXCEPT !.devDependencies[name] = version]
       ELSE pkg
withTailwindDeps(pkg) ==
  withV4(withV4(withTwAnimate(pkg), "tailwindcss", TAILWIND_V4),
         "@tailwindcss/postcss", TAILWIND_POSTCSS_V4)
\* pkg.dependencies = pkg.dependencies ?? {} : a TypeError on a number or a string
ensureTailwindDeps(w, pkg) ==
  IF threw(w) THEN w
  ELSE IF pkg.kind = "scalar" THEN raise(w)
  ELSE IF withTailwindDeps(pkg) # pkg THEN setReinstall(writeJson(w, withTailwindDeps(pkg)))
  ELSE w
fixupTailwindV4(w) ==
  IF projectUsesTailwindV4(globalsCss(w), postcssCfg(w)) /\ readJson(w).kind # "null"
  THEN ensureTailwindDeps(ensurePostcssConfig(w), readJson(w))
  ELSE w

\* 1.5) next, react and react-dom
dep(pkg, name) ==
  IF pkg.dependencies[name] # NoVersion THEN pkg.dependencies[name]
  ELSE pkg.devDependencies[name]
falsy(v) == v = NoVersion \/ v = <<>>
withDep(pkg, name, version) ==
  IF falsy(dep(pkg, name)) THEN [pkg EXCEPT !.dependencies[name] = version] ELSE pkg
withNextDeps(pkg) ==
  withDep(withDep(withDep(pkg, "next", NEXT_VERSION), "react", REACT_VERSION),
          "react-dom", REACT_VERSION)
fixupNextDeps(w) ==
  IF readJson(w).kind = "null" THEN w
  ELSE IF readJson(w).kind = "scalar" THEN raise(w)
  ELSE IF withNextDeps(readJson(w)) # readJson(w)
       THEN setReinstall(writeJson(w, withNextDeps(readJson(w))))
       ELSE w

\* 1.6) next-pwa in the configuration without the dependency
hasNextPwa(pkg) == pkg.kind = "object" /\ ~falsy(dep(pkg, "next-pwa"))
cfgPath(w) == firstExisting(w.files, cfgCandidates)
fixupNextPwa(w) ==
  IF cfgPath(w) # "null" /\ ~isEmptyText(readText(w.files, cfgPath(w)))
     /\ Includes(readText(w.files, cfgPath(w)), <<"n", "e", "x", "t", "-", "p", "w",
         "a">>) /\ ~hasNextPwa(readJson(w))
  THEN writeTextAt(renameToBak(w, cfgPath(w)), NextConfigMjs, minimalNextConfig)
  ELSE w

\* 2) and 3) the layout of the App Router, one candidate
looksWrong(src) ==
  \/ Includes(src, <<"f", "r", "o", "m", " ", "'", "n", "e", "x", "t", "/", "a", "p", "p", "'">>)
  \/ Includes(src, <<"f", "r", "o", "m", " ", "\"", "n", "e", "x", "t", "/", "a", "p", "p", "\"">>)
  \/ Includes(src, <<"A", "p", "p", "P", "r", "o", "p", "s">>)
  \/ Includes(src, <<"A", "p", "p", "R", "o", "u", "t", "e", "r">>)
  \/ Includes(src, <<"f", "u", "n", "c", "t", "i", "o", "n", " ", "M", "y", "A", "p", "p">>)
usesGeist(src) ==
  Includes(src, <<"n", "e", "x", "t", "/", "f", "o", "n", "t", "/", "g", "o", "o", "g", "l",
      "e">>) /\ (Includes(src, <<"G", "e", "i", "s", "t">>) \/ Includes(src, <<"G", "e", "i", "s",
          "t", "_", "M", "o", "n", "o">>))
fixupLayoutAt(w, layoutPath) ==
  IF threw(w) \/ isEmptyText(w.files[layoutPath]) THEN w
  ELSE IF looksWrong(w.files[layoutPath]) THEN writeTextAt(w, layoutPath, fixedLayout)
  ELSE IF usesGeist(w.files[layoutPath])
       THEN writeTextAt(w, layoutPath, rewriteGeistFontsToInter(w.files[layoutPath]))
       ELSE w
fixupLayout(w) == fixupLayoutAt(fixupLayoutAt(w, SrcAppLayout), AppLayout)

\* 3.5) the client page that exports metadata, one candidate
fixupClientMetadataAt(w, pagePath) ==
  IF threw(w) \/ isEmptyText(w.files[pagePath]) THEN w
  ELSE IF ~hasUseClient(w.files[pagePath]) \/ ~repairHasMetadataExport(w.files[pagePath]) THEN w
  ELSE IF repairConflict(w.files[pagePath]) # w.files[pagePath]
       THEN writeTextAt(w, pagePath, repairConflict(w.files[pagePath]))
       ELSE w
fixupClientMetadata(w) == fixupClientMetadataAt(fixupClientMetadataAt(w, SrcPage), RootPage)

\* 4) the Button component
usesButton(w) ==
  \E i \in 1..2 : /\ ~isEmptyText(w.files[repairPageCandidates[i]])
                  /\ Includes(w.files[repairPageCandidates[i]], <<"B", "u", "t", "t", "o", "n">>)
fixupButton(w) ==
  IF ~fileExists(w.files, buttonRel) /\ usesButton(w)
  THEN writeTextAt(w, buttonRel, buttonComponent)
  ELSE w

\* 5) the imports of the Button, one candidate
localButton == <<"f", "r", "o", "m", " ", "\"", "@", "/", "c", "o", "m", "p", "o", "n", "e", "n",
    "t", "s", "/", "u", "i", "/", "b", "u", "t", "t", "o", "n", "\"">>
fixButtonImports(src) ==
  replaceAll(
    replaceAll(
      replaceAll(src, 1, <<Lit(FromWord), Ws1, Quote, Lit(<<"@", "s", "h", "a", "d", "c", "n",
          "/", "u", "i">>), Quote>>, "none",
                 localButton),
      1, <<Lit(FromWord), Ws1, Quote, Lit(<<"s", "h", "a", "d", "c", "n", "/", "u",
          "i">>), Quote>>, "none", localButton),
    1,
    <<Lit(ImportWord), Ws0, Lit(<<"{">>), Ws0, Lit(<<"B", "u", "t", "t", "o",
        "n">>), Ws0, Lit(<<"}">>), Ws0, Lit(FromWord),
      Ws0, Quote, Until({"'", "\""})>>,
    "wsSemi", <<"i", "m", "p", "o", "r", "t", " ", "{", " ", "B", "u", "t", "t", "o", "n", " ",
        "}", " ", "f", "r", "o", "m", " ", "\"", "@", "/", "c", "o", "m", "p", "o", "n", "e", "n",
            "t", "s", "/", "u", "i", "/", "b", "u", "t", "t", "o", "n", "\"", ";">>)
fixupButtonImportsAt(w, pagePath) ==
  IF threw(w) \/ isEmptyText(w.files[pagePath]) THEN w
  ELSE IF fixButtonImports(w.files[pagePath]) # w.files[pagePath]
       THEN writeTextAt(w, pagePath, fixButtonImports(w.files[pagePath]))
       ELSE w
fixupButtonImports(w) == fixupButtonImportsAt(fixupButtonImportsAt(w, SrcPage), RootPage)

\* The projects the pass is run on: a sound project of Next 14 and Tailwind
\* v4 with up to MaxDefects things wrong, each of another kind.
MaxDefects == 2
typedConfig ==
  <<"i", "m", "p", "o", "r", "t", " ", "t", "y", "p", "e", " ", "{", " ", "N", "e", "x", "t", "C",
      "o", "n", "f", "i", "g", " ", "}", " ", "f", "r", "o", "m", " ", "\"", "n", "e", "x", "t",
          "\"", ";">> \o <<NL, NL>>
  \o <<"c", "o", "n", "s", "t", " ", "n", "e", "x", "t", "C", "o", "n", "f", "i", "g", ":", " ",
      "N", "e", "x", "t", "C", "o", "n", "f", "i", "g", " ", "=", " ", "{", "}",
          ";">> \o <<NL, NL>> \o <<"e", "x", "p", "o", "r", "t", " ", "d", "e", "f", "a", "u",
              "l", "t", " ", "n", "e", "x", "t", "C", "o", "n", "f", "i", "g", ";">> \o <<NL>>
satisfiesConfig == <<"c", "o", "n", "s", "t", " ", "n", "e", "x", "t", "C", "o", "n", "f", "i",
    "g", " ", "=", " ", "{", "}", " ", "s", "a", "t", "i", "s", "f", "i", "e", "s", " ", "N", "e",
        "x", "t", "C", "o", "n", "f", "i", "g", ";">> \o <<NL>>
cjsConfig == <<"c", "o", "n", "s", "t", " ", "n", "e", "x", "t", "C", "o", "n", "f", "i", "g",
    " ", "=", " ", "{", "}", ";">> \o <<NL>> \o <<"m", "o", "d", "u", "l", "e", ".", "e", "x",
        "p", "o", "r", "t", "s", " ", "=", " ", "n", "e", "x", "t", "C", "o", "n", "f", "i", "g",
            ";">> \o <<NL>>
pwaConfig ==
  <<"i", "m", "p", "o", "r", "t", " ", "w", "i", "t", "h", "P", "W", "A", " ", "f", "r", "o", "m",
      " ", "\"", "n", "e", "x", "t", "-", "p", "w", "a", "\"", ";">> \o <<NL, NL>> \o <<"e", "x",
          "p", "o", "r", "t", " ", "d", "e", "f", "a", "u", "l", "t", " ", "w", "i", "t", "h",
              "P", "W", "A", "(", "{", "}", ")", ";">> \o <<NL>>
cjsPwaConfig ==
  <<"c", "o", "n", "s", "t", " ", "w", "i", "t", "h", "P", "W", "A", " ", "=", " ", "r", "e", "q",
      "u", "i", "r", "e", "(", "\"", "n", "e", "x", "t", "-", "p", "w", "a", "\"", ")",
          ";">> \o <<NL>> \o <<"m", "o", "d", "u", "l", "e", ".", "e", "x", "p", "o", "r", "t",
              "s", " ", "=", " ", "w", "i", "t", "h", "P", "W", "A", "(", "{", "}", ")",
                  ";">> \o <<NL>>
v4Css == <<"@", "i", "m", "p", "o", "r", "t", " ", "\"", "t", "a", "i", "l", "w", "i", "n", "d",
    "c", "s", "s", "\"", ";">> \o <<NL>>
v3Css == <<"@", "t", "a", "i", "l", "w", "i", "n", "d", " ", "b", "a", "s", "e",
    ";">> \o <<NL>> \o <<"@", "t", "a", "i", "l", "w", "i", "n", "d", " ", "u", "t", "i", "l",
        "i", "t", "i", "e", "s", ";">> \o <<NL>>
themeCss == <<"@", "t", "h", "e", "m", "e", " ", "i", "n", "l", "i", "n", "e", " ",
    "{">> \o <<NL>> \o <<"}">> \o <<NL>>
variantCss == <<"@", "c", "u", "s", "t", "o", "m", "-", "v", "a", "r", "i", "a", "n", "t", " ",
    "d", "a", "r", "k", " ", "(", "&", ":", "i", "s", "(", ".", "d", "a", "r", "k", " ", "*", ")",
        ")", ";">> \o <<NL>>
v3Postcss ==
  <<"m", "o", "d", "u", "l", "e", ".", "e", "x", "p", "o", "r", "t", "s", " ", "=", " ",
      "{">> \o <<NL>> \o <<" ", " ", "p", "l", "u", "g", "i", "n", "s", ":", " ",
          "{">> \o <<NL>> \o <<" ", " ", " ", " ", "t", "a", "i", "l", "w", "i", "n", "d", "c",
              "s", "s", ":", " ", "{", "}", ",">>
  \o <<NL>> \o <<" ", " ", "}", ",">> \o <<NL>> \o <<"}", ";">> \o <<NL>>
pagesRouterLayout ==
  <<"i", "m", "p", "o", "r", "t", " ", "t", "y", "p", "e", " ", "{", " ", "A", "p", "p", "P", "r",
      "o", "p", "s", " ", "}", " ", "f", "r", "o", "m", " ", "\"", "n", "e", "x", "t", "/", "a",
          "p", "p", "\"", ";">> \o <<NL, NL>>
  \o <<"e", "x", "p", "o", "r", "t", " ", "d", "e", "f", "a", "u", "l", "t", " ", "f", "u", "n",
      "c", "t", "i", "o", "n", " ", "M", "y", "A", "p", "p", "(", "{", " ", "C", "o", "m", "p",
          "o", "n", "e", "n", "t", ",", " ", "p", "a", "g", "e", "P", "r", "o", "p", "s", " ",
              "}", ":", " ", "A", "p", "p", "P", "r", "o", "p", "s", ")", " ", "{">> \o <<NL>>
  \o <<" ", " ", "r", "e", "t", "u", "r", "n", " ", "<", "C", "o", "m", "p", "o", "n", "e", "n",
      "t", " ", "{", ".", ".", ".", "p", "a", "g", "e", "P", "r", "o", "p", "s", "}", " ", "/",
          ">", ";">> \o <<NL>> \o <<"}">> \o <<NL>>
geistLayout ==
  <<"i", "m", "p", "o", "r", "t", " ", "{", " ", "G", "e", "i", "s", "t", ",", " ", "G", "e", "i",
      "s", "t", "_", "M", "o", "n", "o", " ", "}", " ", "f", "r", "o", "m", " ", "\"", "n", "e",
          "x", "t", "/", "f", "o", "n", "t", "/", "g", "o", "o", "g", "l", "e", "\"",
              ";">> \o <<NL>>
  \o <<"i", "m", "p", "o", "r", "t", " ", "\"", ".", "/", "g", "l", "o", "b", "a", "l", "s", ".",
      "c", "s", "s", "\"", ";">> \o <<NL, NL>>
  \o <<"c", "o", "n", "s", "t", " ", "g", "e", "i", "s", "t", "S", "a", "n", "s", " ", "=", " ",
      "G", "e", "i", "s", "t", "(", "{">> \o <<NL>> \o <<" ", " ", "v", "a", "r", "i", "a", "b",
          "l", "e", ":", " ", "\"", "-", "-", "f", "o", "n", "t", "-", "g", "e", "i", "s", "t",
              "-", "s", "a", "n", "s", "\"", ",">> \o <<NL>>
  \o <<" ", " ", "s", "u", "b", "s", "e", "t", "s", ":", " ", "[", "\"", "l", "a", "t", "i", "n",
      "\"", "]", ",">> \o <<NL>> \o <<"}", ")", ";">> \o <<NL, NL>>
  \o <<"c", "o", "n", "s", "t", " ", "g", "e", "i", "s", "t", "M", "o", "n", "o", " ", "=", " ",
      "G", "e", "i", "s", "t", "_", "M", "o", "n", "o", "(", "{">> \o <<NL>> \o <<" ", " ", "v",
          "a", "r", "i", "a", "b", "l", "e", ":", " ", "\"", "-", "-", "f", "o", "n", "t", "-",
              "g", "e", "i", "s", "t", "-", "m", "o", "n", "o", "\"", ",">> \o <<NL>>
  \o <<" ", " ", "s", "u", "b", "s", "e", "t", "s", ":", " ", "[", "\"", "l", "a", "t", "i", "n",
      "\"", "]", ",">> \o <<NL>> \o <<"}", ")", ";">> \o <<NL, NL>>
  \o <<"e", "x", "p", "o", "r", "t", " ", "d", "e", "f", "a", "u", "l", "t", " ", "f", "u", "n",
      "c", "t", "i", "o", "n", " ", "R", "o", "o", "t", "L", "a", "y", "o", "u", "t", "(", "{",
          " ", "c", "h", "i", "l", "d", "r", "e", "n", " ", "}", ")", " ", "{">> \o <<NL>>
  \o <<" ", " ", "r", "e", "t", "u", "r", "n", " ", "<", "h", "t", "m", "l", ">", "<", "b", "o",
      "d", "y", " ", "c", "l", "a", "s", "s", "N", "a", "m", "e", "=", "{", "g", "e", "i", "s",
          "t", "S", "a", "n", "s", ".", "v", "a", "r", "i", "a", "b", "l", "e", "}", ">", "{",
              "c", "h", "i", "l", "d", "r", "e", "n", "}", "<", "/", "b", "o", "d", "y", ">", "<",
                  "/", "h", "t", "m", "l", ">", ";">> \o <<NL>>
  \o <<"}">> \o <<NL>>
geistSansLayout ==
  <<"i", "m", "p", "o", "r", "t", " ", "{", " ", "G", "e", "i", "s", "t", " ", "}", " ", "f", "r",
      "o", "m", " ", "'", "n", "e", "x", "t", "/", "f", "o", "n", "t", "/", "g", "o", "o", "g",
          "l", "e", "'">> \o <<NL>>
  \o <<"c", "o", "n", "s", "t", " ", "G", "e", "i", "s", "t", "S", "a", "n", "s", " ", "=", " ",
      "G", "e", "i", "s", "t", "(", "{", " ", "s", "u", "b", "s", "e", "t", "s", ":", " ", "[",
          "\"", "l", "a", "t", "i", "n", "\"", "]", ",", " ", "}", ")", ";">> \o <<NL>>
  \o <<"e", "x", "p", "o", "r", "t", " ", "d", "e", "f", "a", "u", "l", "t", " ", "f", "u", "n",
      "c", "t", "i", "o", "n", " ", "R", "o", "o", "t", "L", "a", "y", "o", "u", "t", "(", "{",
          " ", "c", "h", "i", "l", "d", "r", "e", "n", " ", "}", ")", " ", "{">> \o <<NL>>
  \o <<" ", " ", "r", "e", "t", "u", "r", "n", " ", "<", "h", "t", "m", "l", ">", "<", "b", "o",
      "d", "y", " ", "c", "l", "a", "s", "s", "N", "a", "m", "e", "=", "{", "G", "e", "i", "s",
          "t", "S", "a", "n", "s", ".", "c", "l", "a", "s", "s", "N", "a", "m", "e", "}", ">",
              "{", "c", "h", "i", "l", "d", "r", "e", "n", "}", "<", "/", "b", "o", "d", "y", ">",
                  "<", "/", "h", "t", "m", "l", ">", ";">> \o <<NL>>
  \o <<"}">> \o <<NL>>
plainPage == <<"e", "x", "p", "o", "r", "t", " ", "d", "e", "f", "a", "u", "l", "t", " ", "f",
    "u", "n", "c", "t", "i", "o", "n", " ", "P", "a", "g", "e", "(", ")", " ",
        "{">> \o <<NL>> \o <<" ", " ", "r", "e", "t", "u", "r", "n", " ", "<", "m", "a", "i", "n",
            " ", "/", ">", ";">> \o <<NL>> \o <<"}">> \o <<NL>>
pageOf(blocks) == JoinWith(blocks, NL) \o <<NL>> \o plainPage
shadcnImport == <<"i", "m", "p", "o", "r", "t", " ", "{", " ", "B", "u", "t", "t", "o", "n", " ",
    "}", " ", "f", "r", "o", "m", " ", "\"", "@", "s", "h", "a", "d", "c", "n", "/", "u", "i",
        "\"", ";">>
cardImport == <<"i", "m", "p", "o", "r", "t", " ", "{", " ", "C", "a", "r", "d", " ", "}", " ",
    "f", "r", "o", "m", " ", "'", "s", "h", "a", "d", "c", "n", "/", "u", "i", "'">>
buttonImport == <<"i", "m", "p", "o", "r", "t", " ", "{", " ", "B", "u", "t", "t", "o", "n", " ",
    "}", " ", "f", "r", "o", "m", " ", "'", ".", ".", "/", "u", "i", "/", "b", "u", "t", "t", "o",
        "n", "'">>
buttonUse == <<"c", "o", "n", "s", "t", " ", "b", " ", "=", " ", "<", "B", "u", "t", "t", "o",
    "n", " ", "/", ">", ";">>

SoundDeps ==
  [n \in ManifestDeps |->
     CASE n = "next" -> NEXT_VERSION
       [] n \in {"react", "react-dom"} -> REACT_VERSION
       [] n = "tw-animate-css" -> TW_ANIMATE_CSS
       [] OTHER -> NoVersion]
SoundDevDeps ==
  [n \in ManifestDeps |->
     CASE n = "tailwindcss" -> TAILWIND_V4
       [] n = "@tailwindcss/postcss" -> TAILWIND_POSTCSS_V4
       [] OTHER -> NoVersion]
SoundFiles ==
  [p \in Paths |->
     CASE p = NextConfigMjs -> minimalNextConfig
       [] p = "src/app/globals.css" -> v4Css
       [] p = PostcssMjs -> expectedPostcss
       [] p = SrcAppLayout -> fixedLayout
       [] p = SrcPage -> plainPage
       [] OTHER -> NoFile]
SoundProject ==
  [files |-> SoundFiles,
   pkg |-> [kind |-> "object", dependencies |-> SoundDeps, devDependencies |-> SoundDevDeps],
   readOnly |-> {}]

\* one thing wrong: the files it puts or takes away, the manifest it leaves,
\* the versions it declares or drops, the paths it makes read-only
Defect(aspect, files, kind, deps, devDeps, readOnly) ==
  [aspect |-> aspect, files |-> files, kind |-> kind, dependencies |-> deps,
   devDependencies |-> devDeps, readOnly |-> readOnly]
None == <<>>
FileDefect(aspect, files) == Defect(aspect, files, "object", None, None, {})
DepsDefect(aspect, deps, devDeps) == Defect(aspect, None, "object", deps, devDeps, {})
v3 == <<"^", "3", ".", "4", ".", "1">>
pinned3 == <<"3", ".", "4", ".", "1">>
Defects ==
  << FileDefect(1, (NextConfigTs :> typedConfig) @@ (NextConfigMjs :> NoFile)),
     FileDefect(1, (NextConfigTs :> typedConfig)),
     FileDefect(1, (NextConfigMjs :> pwaConfig)),
     FileDefect(1, (NextConfigTs :> satisfiesConfig) @@ (NextConfigMjs :> NoFile)),
     FileDefect(1, (NextConfigTs :> <<>>) @@ (NextConfigMjs :> NoFile)),
     FileDefect(1, (NextConfigJs :> cjsConfig) @@ (NextConfigMjs :> NoFile)),
     FileDefect(1, (NextConfigTs :> cjsPwaConfig) @@ (NextConfigMjs :> NoFile)),
     FileDefect(1, (NextConfigTs :> cjsConfig) @@ (NextConfigMjs :> NoFile)
                   @@ (bakOf(NextConfigTs) :> typedConfig)),
     FileDefect(2, ("src/app/globals.css" :> v3Css)),
     FileDefect(2, ("src/app/globals.css" :> NoFile)),
     FileDefect(2, ("src/app/globals.css" :> NoFile) @@ ("app/globals.css" :> themeCss)),
     FileDefect(2, ("src/app/globals.css" :> v3Css) @@ ("styles/globals.css" :> variantCss)),
     FileDefect(3, (PostcssMjs :> NoFile)),
     FileDefect(3, (PostcssMjs :> NoFile) @@ (PostcssJs :> v3Postcss)),
     FileDefect(3, (PostcssMjs :> v3Postcss)),
     Defect(4, None, "null", None, None, {}),
     Defect(4, None, "scalar", None, None, {}),
     Defect(4, None, "array", None, None, {}),
     DepsDefect(5, None, ("tailwindcss" :> NoVersion)),
     DepsDefect(5, None, ("tailwindcss" :> v3)),
     DepsDefect(5, ("tailwindcss" :> v3), ("tailwindcss" :> NoVersion)),
     DepsDefect(5, None, ("tailwindcss" :> pinned3)),
     DepsDefect(6, None, ("@tailwindcss/postcss" :> NoVersion)),
     DepsDefect(6, None, ("@tailwindcss/postcss" :> v3)),
     DepsDefect(6, ("@tailwindcss/postcss" :> TAILWIND_POSTCSS_V4),
                   ("@tailwindcss/postcss" :> NoVersion)),
     DepsDefect(7, ("tw-animate-css" :> NoVersion), None),
     DepsDefect(7, ("tw-animate-css" :> NoVersion), ("tw-animate-css" :> TW_ANIMATE_CSS)),
     DepsDefect(8, ("next" :> NoVersion), None),
     DepsDefect(8, ("next" :> NoVersion), ("next" :> NEXT_VERSION)),
     DepsDefect(8, ("next" :> <<>>), None),
     DepsDefect(8, ("react" :> NoVersion), None),
     DepsDefect(8, ("react-dom" :> NoVersion) @@ ("react" :> NoVersion), None),
     DepsDefect(9, ("next-pwa" :> <<"^", "5", ".", "6", ".", "0">>), None),
     FileDefect(10, (SrcAppLayout :> pagesRouterLayout)),
     FileDefect(10, (SrcAppLayout :> geistLayout)),
     FileDefect(10, (SrcAppLayout :> geistSansLayout)),
     FileDefect(10, (SrcAppLayout :> NoFile)),
     FileDefect(10, (SrcAppLayout :> <<>>) @@ (AppLayout :> pagesRouterLayout)),
     FileDefect(11, (SrcPage :> pageOf(<<UseClientLine, MetadataLines>>))),
     FileDefect(11, (SrcPage :> pageOf(<<UseClientLine, HookLine, MetadataLines>>))),
     FileDefect(11, (SrcPage :> pageOf(<<UseClientLine, UseClientLine, MetadataOneLine>>))),
     FileDefect(11, (SrcPage :> pageOf(<<UseClientLine, HookLine, GenerateMetadataLines>>))),
     FileDefect(11, (SrcPage :> pageOf(<<shadcnImport>>))),
     FileDefect(11, (SrcPage :> pageOf(<<cardImport>>))),
     FileDefect(11, (SrcPage :> pageOf(<<buttonImport, buttonUse>>))),
     FileDefect(11, (SrcPage :> NoFile)),
     FileDefect(11, (RootPage :> pageOf(<<UseClientLine, shadcnImport, MetadataOneLine>>))),
     FileDefect(12, (buttonRel :> buttonComponent)),
     Defect(13, None, "object", None, None, {NextConfigMjs}),
     Defect(13, None, "object", None, None, {PostcssMjs}),
     Defect(13, None, "object", None, None, {PackageJson}),
     Defect(13, None, "object", None, None, {SrcAppLayout}),
     Defect(13, None, "object", None, None, {SrcPage}),
     Defect(13, None, "object", None, None, {buttonRel}) >>
override(f, g) == [x \in DOMAIN f |-> IF x \in DOMAIN g THEN g[x] ELSE f[x]]
withDefect(project, d) ==
  [files |-> override(project.files, d.files),
   pkg |-> IF d.kind # "object" \/ project.pkg.kind # "object"
           THEN [NoManifest EXCEPT !.kind = IF d.kind # "object" THEN d.kind
                                              ELSE project.pkg.kind]
           ELSE [kind |-> "object",
                 dependencies |-> override(project.pkg.dependencies, d.dependencies),
                 devDependencies |-> override(project.pkg.devDependencies, d.devDependencies)],
   readOnly |-> project.readOnly \cup d.readOnly]
RECURSIVE DefectSets(_)
DefectSets(n) ==
  IF n = 0 THEN {{}}
  ELSE DefectSets(n - 1)
       \cup UNION {{ds \cup {i} : i \in {j \in 1..Len(Defects) :
                                              \A k \in ds : Defects[k].aspect # Defects[j].aspect}} :
                    ds \in DefectSets(n - 1)}
RECURSIVE withDefects(_, _)
withDefects(project, ds) ==
  IF ds = {} THEN project
  ELSE withDefects(withDefect(project, Defects[firstOf(ds)]), ds \ {firstOf(ds)})
Projects == {withDefects(SoundProject, ds) : ds \in DefectSets(MaxDefects)}

\* The pass, fixup by fixup, as PreviewManagerImpl.start calls it: an error
\* thrown by a fixup leaves repairProjectForPreview, and start catches it.
Fixups == <<"0", "1", "1.5", "1.6", "2", "3.5", "4", "5">>
fixupAt(i, w) ==
  CASE i = 1 -> fixupNextConfigTs(w)
    [] i = 2 -> fixupTailwindV4(w)
    [] i = 3 -> fixupNextDeps(w)
    [] i = 4 -> fixupNextPwa(w)
    [] i = 5 -> fixupLayout(w)
    [] i = 6 -> fixupClientMetadata(w)
    [] i = 7 -> fixupButton(w)
    [] i = 8 -> fixupButtonImports(w)
snapshot(w) == [files |-> w.files, pkg |-> w.pkg]
beginPass(project, n) ==
  [pc |-> Fixups[1], pass |-> n,
   w |-> [files |-> project.files, pkg |-> project.pkg, readOnly |-> project.readOnly,
          reinstallDeps |-> FALSE, threw |-> FALSE],
   ran |-> {}, before |-> [files |-> project.files, pkg |-> project.pkg]]
InPass == "pass" \in DOMAIN rp
\* one fixup of the pass, the i-th in the order of the code
runFixup(i) ==
  /\ InPass
  /\ rp.pc = Fixups[i]
  /\ rp' = [rp EXCEPT !.w = fixupAt(i, rp.w),
                      !.ran = rp.ran \cup {Fixups[i]},
                      !.pc = IF threw(fixupAt(i, rp.w)) THEN "failed"
                             ELSE IF i = Len(Fixups) THEN "returned"
                             ELSE Fixups[i + 1]]
fixup0 == runFixup(1)
fixup1 == runFixup(2)
fixup1_5 == runFixup(3)
fixup1_6 == runFixup(4)
fixup2 == runFixup(5)
fixup3_5 == runFixup(6)
fixup4 == runFixup(7)
fixup5 == runFixup(8)
PassEnded == InPass /\ rp.pc \in {"returned", "failed"}
\* what start keeps of the pass: the flag it returned, false if it threw
repairReinstall == rp.pc = "returned" /\ rp.w.reinstallDeps
\* the next start of the preview runs the pass again over what the first left
startAgain ==
  /\ PassEnded
  /\ rp.pass = 1
  /\ rp' = beginPass(rp.w, 2)

InitRepair ==
  /\ PreviewInit
  /\ ApplyIdle
  /\ FixIdle
  /\ LogIdle
  /\ HistoryIdle
  /\ ParseIdle
  /\ \E project \in Projects : rp = beginPass(project, 1)

NextRepair ==
  \/ fixup0 /\ UNCHANGED <<previewVars, applyVars, fixVars, parseVars, logVars, historyVars>>
  \/ fixup1 /\ UNCHANGED <<previewVars, applyVars, fixVars, parseVars, logVars, historyVars>>
  \/ fixup1_5 /\ UNCHANGED <<previewVars, applyVars, fixVars, parseVars, logVars, historyVars>>
  \/ fixup1_6 /\ UNCHANGED <<previewVars, applyVars, fixVars, parseVars, logVars, historyVars>>
  \/ fixup2 /\ UNCHANGED <<previewVars, applyVars, fixVars, parseVars, logVars, historyVars>>
  \/ fixup3_5 /\ UNCHANGED <<previewVars, applyVars, fixVars, parseVars, logVars, historyVars>>
  \/ fixup4 /\ UNCHANGED <<previewVars, applyVars, fixVars, parseVars, logVars, historyVars>>
  \/ fixup5 /\ UNCHANGED <<previewVars, applyVars, fixVars, parseVars, logVars, historyVars>>
  \/ startAgain /\ UNCHANGED <<previewVars, applyVars, fixVars, parseVars, logVars, historyVars>>

SpecRepair == InitRepair /\ [][NextRepair]_vars


\* ------------------------------------------------------------------------
\* The log of an instance: pushLogLine for the messages of the supervisor
\* and the commands it runs, pushLogChunk for what a child writes to stdout
\* and stderr.  A chunk is a text of line bodies and the characters \r and
\* \n; the body of a line is one sign that tells the lines apart.
\* ------------------------------------------------------------------------
\* appends in one behaviour
MaxAppends == 3

\* the positions of \n in a text
newlines(text) == SelectSeq([i \in 1..Len(text) |-> i], LAMBDA i : text[i] = NL)
\* where the piece after the (j-1)-th match of /\r?\n/ begins and ends
pieceFrom(text, nls, j) == IF j = 1 THEN 1 ELSE nls[j - 1] + 1
pieceTo(text, nls, j) ==
  IF j > Len(nls) THEN Len(text)
  ELSE IF nls[j] - 1 >= pieceFrom(text, nls, j) /\ text[nls[j] - 1] = CR THEN nls[j] - 2
  ELSE nls[j] - 1
\* text.split(/\r?\n/)
splitLinesAt(text, nls) ==
  [j \in 1..(Len(nls) + 1) |-> SubSeq(text, pieceFrom(text, nls, j), pieceTo(text, nls, j))]
splitLines(text) == splitLinesAt(text, newlines(text))
\* .filter(Boolean): the empty strings go
nonEmptyLines(lines) == SelectSeq(lines, LAMBDA l : l # <<>>)
\* for (const line of lines) pushLogLine(inst, line), over lines[a..b]
RECURSIVE pushLogLines(_, _, _, _)
pushLogLines(logs, lines, a, b) ==
  IF a > b THEN logs
  ELSE IF a = b THEN pushLogLine(logs, lines[a])
  ELSE LET half == pushLogLines(logs, lines, a, (a + b) \div 2)
       IN IF Len(half) >= 0 THEN pushLogLines(half, lines, (a + b) \div 2 + 1, b) ELSE half
pushLogChunk(logs, text) ==
  pushLogLines(logs, nonEmptyLines(splitLines(text)), 1, Len(nonEmptyLines(splitLines(text))))

\* The chunks of the model: a number of lines, each followed by the same
\* line end (the last one too, or not).  Of a line end, `kept` is what
\* split leaves on the line before it.
LineEnd(tokens, kept) == [tokens |-> tokens, kept |-> kept]
Lf == LineEnd(<<NL>>, <<>>)
CrLf == LineEnd(<<CR, NL>>, <<>>)
BlankLf == LineEnd(<<NL, NL>>, <<>>)
BlankCrLf == LineEnd(<<CR, NL, CR, NL>>, <<>>)
CrCrLf == LineEnd(<<CR, CR, NL>>, <<CR>>)
Chunk(lines, end, closed) == [lines |-> lines, end |-> end, closed |-> closed]
Chunks ==
  { Chunk(0, Lf, TRUE), Chunk(1, Lf, TRUE), Chunk(1, BlankLf, FALSE), Chunk(2, CrLf, TRUE),
    Chunk(MAX_LOG_LINES \div 2, Lf, FALSE), Chunk(MAX_LOG_LINES \div 2, BlankCrLf, TRUE),
    Chunk(MAX_LOG_LINES - 1, CrLf, TRUE), Chunk(MAX_LOG_LINES - 1, CrCrLf, FALSE),
    Chunk(MAX_LOG_LINES + 1, BlankLf, TRUE) }
\* the body of the k-th line appended after n others
body(n, k) == ToString(n + k)
\* the text of a chunk that arrives after n lines
unit(c) == 1 + Len(c.end.tokens)
closedText(c, n) ==
  [i \in 1..(c.lines * unit(c)) |->
     IF (i - 1) % unit(c) = 0 THEN body(n, (i - 1) \div unit(c) + 1)
     ELSE c.end.tokens[(i - 1) % unit(c)]]
chunkText(c, n) ==
  IF c.closed \/ c.lines = 0 THEN closedText(c, n)
  ELSE SubSeq(closedText(c, n), 1, c.lines * unit(c) - Len(c.end.tokens))
\* the lines the chunk is made of, as the child wrote them
chunkLines(c, n) ==
  [k \in 1..c.lines |->
     IF k = c.lines /\ ~c.closed THEN <<body(n, k)>> ELSE <<body(n, k)>> \o c.end.kept]

Appends == appended.calls
\* pushLogLine(inst, line) with a message of the supervisor, never empty, on
\* an instance that start() has registered
appendLine ==
  /\ Appends < MaxAppends
  /\ inst' = [inst EXCEPT !.known = TRUE,
                          !.logs = pushLogLine(@, <<"msg", body(Len(appended.lines), 1)>>)]
  /\ appended' = [lines |-> Append(appended.lines, <<"msg", body(Len(appended.lines), 1)>>),
                  calls |-> Appends + 1]
\* the data handler of stdout or stderr: pushLogChunk(inst, chunk)
appendChunk ==
  /\ Appends < MaxAppends
  /\ \E c \in Chunks :
       /\ inst' = [inst EXCEPT !.known = TRUE,
                               !.logs = pushLogChunk(@, chunkText(c, Len(appended.lines)))]
       /\ appended' = [lines |-> appended.lines \o chunkLines(c, Len(appended.lines)),
                       calls |-> Appends + 1]

Tails == {0, 1, 250, 350, MAX_LOG_LINES, MAX_LOG_LINES + 100}
LogsOpts == {NoOpts} \cup {TailOpts(n) : n \in Tails}
LogsReturn(opts, lines) == [op |-> "logs", opts |-> opts, lines |-> lines]
\* a caller reads the log
logsCall ==
  /\ \E opts \in LogsOpts : ret' = LogsReturn(opts, previewLogs(inst, opts))
  /\ UNCHANGED <<inst, appended>>
InitLogs ==
  /\ PreviewInit
  /\ ApplyIdle
  /\ FixIdle
  /\ LogIdle
  /\ HistoryIdle
  /\ RepairIdle
  /\ ParseIdle

\* logs() leaves the instance as it is: a run reads the log once, at its end
NextLogs ==
  \/ ret = NoReturn /\ appendLine /\ UNCHANGED <<procs, starts, stops, chunks, ret, applyVars, fixVars, parseVars, repairVars, historyVars>>
  \/ ret = NoReturn /\ appendChunk /\ UNCHANGED <<procs, starts, stops, chunks, ret, applyVars, fixVars, parseVars, repairVars, historyVars>>
  \/ ret = NoReturn /\ logsCall /\ UNCHANGED <<procs, starts, stops, chunks, applyVars, fixVars, parseVars, repairVars, historyVars>>

SpecLogs == InitLogs /\ [][NextLogs]_vars

\* ------------------------------------------------------------------------
\* DesignHistory: the undo and redo stacks of one project, and the files the
\* entries name.  An entry holds the content of its file before and after an
\* edit; the newest entry is the last of its stack.
\* ------------------------------------------------------------------------
MaxEdits == 3
HISTORY_CAP == 100
HistoryFiles == {"f", "g"}
HistoryContents == {"a", "b", "c"}
\* what a file holds when a failed write has truncated it
Truncated == ""

HistoryEntry(id, file, before, after) ==
  [id |-> id, filePathAbs |-> file, before |-> before, after |-> after]
NoEntry == [id |-> 0, filePathAbs |-> "", before |-> "", after |-> ""]
HistoryState(undo, redo) == [undo |-> undo, redo |-> redo]
NoSnapshot == [undo |-> <<>>, redo |-> <<>>, disk |-> <<>>]

\* DesignHistory.push: the entry goes on the undo stack, the redo stack is
\* emptied, the undo stack keeps its newest 100 entries
push(st, entry) ==
  LET u == Append(st.undo, entry)
  IN HistoryState(IF Len(u) > HISTORY_CAP THEN SubSeq(u, Len(u) - HISTORY_CAP + 1, Len(u)) ELSE u,
                  <<>>)

\* Array.prototype.pop
popped(s) == SubSeq(s, 1, Len(s) - 1)
top(s) == s[Len(s)]

Stacks == HistoryState(dh.undo, dh.redo)
Snapshot == [undo |-> dh.undo, redo |-> dh.redo, disk |-> dh.disk]

\* fs.writeFile resolves with the content written, or rejects with the file
\* untouched or truncated
writeOutcomes(disk, file, content) ==
  [ok : {TRUE}, disk : {[disk EXCEPT ![file] = content]}]
    \cup [ok : {FALSE}, disk : {disk, [disk EXCEPT ![file] = Truncated]}]

\* an edit of the design: the caller writes the file and records the edit
designEdit ==
  /\ dh.pc = "idle"
  /\ dh.edits < MaxEdits
  /\ \E file \in HistoryFiles : \E after \in HistoryContents \ {dh.disk[file]} :
       LET st == push(Stacks, HistoryEntry(dh.edits + 1, file, dh.disk[file], after))
       IN dh' = [dh EXCEPT !.undo = st.undo, !.redo = st.redo, !.edits = @ + 1,
                           !.disk[file] = after, !.op = "push", !.result = "returned",
                           !.last = NoEntry, !.trip = "none"]

\* undo() up to its await: the entry is popped, or null is returned
undoBegin ==
  /\ dh.pc = "idle"
  /\ IF dh.undo = <<>>
     THEN dh' = [dh EXCEPT !.op = "undo", !.result = "null", !.last = NoEntry, !.trip = "none",
                           !.pre = Snapshot]
     ELSE dh' = [dh EXCEPT !.pc = "undoWrite", !.op = "undo", !.result = "pending",
                           !.last = top(dh.undo), !.undo = popped(dh.undo),
                           !.pre = Snapshot, !.trip = "undoing", !.start = Snapshot]

\* the write of the 'before' content settles
undoWritten ==
  /\ dh.pc = "undoWrite"
  /\ \E w \in writeOutcomes(dh.disk, dh.last.filePathAbs, dh.last.before) :
       dh' = IF w.ok
             THEN [dh EXCEPT !.pc = "idle", !.disk = w.disk, !.redo = Append(@, dh.last),
                             !.result = "returned", !.trip = "undone"]
             ELSE [dh EXCEPT !.pc = "idle", !.disk = w.disk, !.result = "raised",
                             !.trip = "none"]

\* redo() up to its await
redoBegin ==
  /\ dh.pc = "idle"
  /\ IF dh.redo = <<>>
     THEN dh' = [dh EXCEPT !.op = "redo", !.result = "null", !.last = NoEntry, !.trip = "none",
                           !.pre = Snapshot]
     ELSE dh' = [dh EXCEPT !.pc = "redoWrite", !.op = "redo", !.result = "pending",
                           !.last = top(dh.redo), !.redo = popped(dh.redo),
                           !.pre = Snapshot,
                           !.trip = IF dh.trip = "undone" THEN "redoing" ELSE "none"]

\* the write of the 'after' content settles
redoWritten ==
  /\ dh.pc = "redoWrite"
  /\ \E w \in writeOutcomes(dh.disk, dh.last.filePathAbs, dh.last.after) :
       dh' = IF w.ok
             THEN [dh EXCEPT !.pc = "idle", !.disk = w.disk, !.undo = Append(@, dh.last),
                             !.result = "returned",
                             !.trip = IF dh.trip = "redoing" THEN "redone" ELSE "none"]
             ELSE [dh EXCEPT !.pc = "idle", !.disk = w.disk, !.result = "raised",
                             !.trip = IF dh.trip = "redoing" THEN "redone" ELSE "none"]

\* a project whose history is empty.  pre: the stacks and files when the
\* last call began; start: the same when the undo() of the round trip under
\* way began; trip: how far an undo() followed at once by redo() has come
EmptyHistory ==
  [pc |-> "idle", undo |-> <<>>, redo |-> <<>>, disk |-> [f \in HistoryFiles |-> "a"],
   edits |-> 0, op |-> "none", result |-> "none", last |-> NoEntry,
   pre |-> NoSnapshot, start |-> NoSnapshot, trip |-> "none"]

InitHistory ==
  /\ PreviewInit
  /\ ApplyIdle
  /\ FixIdle
  /\ LogIdle
  /\ dh = EmptyHistory
  /\ RepairIdle
  /\ ParseIdle

NextHistory ==
  \/ designEdit /\ UNCHANGED <<previewVars, applyVars, fixVars, parseVars, repairVars, logVars>>
  \/ undoBegin /\ UNCHANGED <<previewVars, applyVars, fixVars, parseVars, repairVars, logVars>>
  \/ undoWritten /\ UNCHANGED <<previewVars, applyVars, fixVars, parseVars, repairVars, logVars>>
  \/ redoBegin /\ UNCHANGED <<previewVars, applyVars, fixVars, parseVars, repairVars, logVars>>
  \/ redoWritten /\ UNCHANGED <<previewVars, applyVars, fixVars, parseVars, repairVars, logVars>>

SpecHistory == InitHistory /\ [][NextHistory]_vars


\* ------------------------------------------------------------------------
\* Path containment of the Change Applier
\* ------------------------------------------------------------------------
ProjectAbs == pathResolve(ProjectDir)

\* d names something strictly below the project directory
InsideProject(d) ==
  /\ StartsWith(d, ProjectAbs \o <<SLASH>>)
  /\ LET segs == SplitSlash(DropFirst(d, Len(ProjectAbs) + 1))
     IN \A i \in 1..Len(segs) : segs[i] \notin {<<>>, <<".">>, DotDot}

OutsideProject(d) == d # ProjectAbs /\ ~StartsWith(d, ProjectAbs \o <<SLASH>>)

\* where a cleaned path points when it is read from the project directory
ResolvedTarget(cleaned) ==
  pathResolve(IF isAbsolute(cleaned) THEN cleaned ELSE ProjectAbs \o <<SLASH>> \o cleaned)

\* the path of a resolved target below the project, relative to the project
RelativeForm(d) == DropFirst(d, Len(ProjectAbs) + 1)

HasDotDotSegment(s) ==
  LET segs == SplitSlash(s) IN \E i \in 1..(Len(segs) - 1) : segs[i] = DotDot

\* sanitizeRelative has returned or thrown for the edit
Decided == wf.pc = "mkdir" \/ (wf.pc = "raised" /\ wf.err # "fs")
PathRejected == wf.pc = "raised" /\ wf.err # "fs"
PathAccepted == wf.pc = "mkdir"

\* C9: every file written lies inside the project directory, and an edit
\* whose cleaned path resolves outside the project directory is never written.
C9_WritesStayInside ==
  /\ wf.pc = "written" => InsideProject(wf.dest)
  /\ OutsideProject(ResolvedTarget(normalizePathInput(ch))) => wf.pc # "written"

\* an edit whose path mentions ".." has been written, inside the project
C9_Witness ==
  /\ wf.pc = "written"
  /\ HasDotDotSegment(normalizePathInput(ch))
  /\ InsideProject(wf.dest)

\* an edit that resolves outside the project has been refused
C9_WitnessRefused ==
  /\ wf.pc = "raised"
  /\ OutsideProject(ResolvedTarget(normalizePathInput(ch)))

DotDotSlash(s) == StartsWith(s, DotDot) \/ Includes(s, <<".", ".", SLASH>>)

\* a relative path that is already cleaned and normalized, names no
\* directory, and does not begin with ".."
CanonicalRelative(r) ==
  /\ r # <<>> /\ r # <<".">>
  /\ ~isAbsolute(r) /\ ~IsDrive(r)
  /\ r[Len(r)] # SLASH
  /\ normalizePathInput(r) = r
  /\ posixNormalize(r) = r
  /\ ~StartsWith(r, DotDot)

C10_WitnessInterior ==
  /\ PathAccepted
  /\ HasDotDotSegment(normalizePathInput(ch))

\* ------------------------------------------------------------------------
\* Dependencies and batches of the Change Applier
\* ------------------------------------------------------------------------
\* the distinct non-empty trimmed names of the requested dependency list
RequestedNames == { Trim(ap.deps[i]) : i \in 1..Len(ap.deps) } \ { <<>> }

Count(list, x) == Cardinality({ i \in 1..Len(list) : list[i] = x })

\* C11: when apply() returns, installedDependencies and skippedDependencies
\* are disjoint and every distinct non-empty trimmed requested name is in
\* exactly one of them.
C11_InstalledSkippedPartition ==
  ap.pc = "returned" =>
    /\ Elems(ap.installed) \cap Elems(ap.skipped) = {}
    /\ Elems(ap.installed) \cup Elems(ap.skipped) = RequestedNames
    /\ \A n \in RequestedNames : Count(ap.installed, n) + Count(ap.skipped, n) = 1

\* a call returned with a blocked name, an installed name and a failed install
C11_Witness ==
  /\ ap.pc = "returned"
  /\ ap.blocked # <<>>
  /\ ap.installed # <<>>
  /\ \E i \in 1..Len(ap.cmds) : ~ap.cmds[i].ok

\* C12: with every file path valid, apply() returns an ApplyResult whatever
\* the classifier, the package-manager probes and the install commands do:
\* it raises only while it writes the files.
C12_DependenciesNeverRaise ==
  ap.pc = "raised" => ap.k <= Len(ap.files)

\* the commands issued for one bucket, in order
BucketCmds(b) == SelectSeq(ap.cmds, LAMBDA c : c.bucket = b)

BucketRule(b, pkgs) ==
  LET cs == BucketCmds(b)
  IN IF pkgs = <<>> THEN cs = <<>>
     ELSE /\ cs # <<>>
          /\ cs[1].pkgs = pkgs
          /\ IF cs[1].ok
             THEN /\ Len(cs) = 1
                  /\ \A i \in 1..Len(pkgs) : pkgs[i] \in Elems(ap.installed)
             ELSE /\ Len(cs) = 1 + Len(pkgs)
                  /\ \A i \in 1..Len(pkgs) :
                       /\ cs[i + 1].pkgs = << pkgs[i] >>
                       /\ (pkgs[i] \in Elems(ap.installed)) <=> cs[i + 1].ok

\* C13: for each bucket one batched install comes first; if it fails every
\* package of the bucket is installed on its own exactly once; a package is
\* reported installed exactly when the batch or its own install succeeded.
C13_BatchThenEach ==
  ap.pc = "returned" /\ ap.probed =>
    /\ BucketRule("prod", ap.prod)
    /\ BucketRule("dev", ap.dev)

\* a bucket of two packages whose batch failed: one installed, one skipped
C13_Witness ==
  /\ ap.pc = "returned"
  /\ Len(ap.prod) = 2
  /\ ~BucketCmds("prod")[1].ok
  /\ ap.prod[1] \in Elems(ap.skipped)
  /\ ap.prod[2] \in Elems(ap.installed)

AllCmdsOk == \A i \in 1..Len(ap.cmds) : ap.cmds[i].ok

\* C14: a name the classifier rejects is never handed to an install command
\* and is reported skipped; "@next/navigation" with "lodash" gives
\* "@next/navigation" skipped and, when the installs succeed, "lodash" installed.
C14_ClassifiedBeforeInstall ==
  /\ \A i \in 1..Len(ap.cmds) : \A j \in 1..Len(ap.cmds[i].pkgs) :
       /\ ap.cmds[i].pkgs[j] # NextNavigation
       /\ ~invalidDep(ap.cmds[i].pkgs[j], ap.isNextProject)
  /\ ap.pc = "returned" =>
       /\ \A n \in RequestedNames : invalidDep(n, ap.isNextProject) => n \in Elems(ap.skipped)
       /\ NextNavigation \in RequestedNames => NextNavigation \in Elems(ap.skipped)
       /\ (Lodash \in RequestedNames /\ AllCmdsOk) => Lodash \in Elems(ap.installed)

C14_Witness ==
  /\ ap.pc = "returned"
  /\ ap.deps = << NextNavigation, Lodash >>
  /\ ap.skipped = << NextNavigation >>
  /\ ap.installed = << Lodash >>

\* the path of an edit is empty or leaves the project root
BadEdit(path) ==
  \/ normalizePathInput(path) = <<>>
  \/ OutsideProject(ResolvedTarget(normalizePathInput(path)))

ValidationError(e) == e \notin {"none", "fs", "No package manager found (need pnpm, yarn, or npm)."}

\* C15: a batch never gets past an edit with an empty or escaping path: when
\* apply() raises at edit k, exactly the edits before k have been written, in
\* order, and no package manager was probed and nothing was installed.
C15_BadEditAborts ==
  /\ \A j \in 1..Len(ap.files) :
       BadEdit(ap.files[j]) =>
         /\ ap.k <= j /\ Len(ap.disk) < j
         /\ ~ap.probed /\ ap.cmds = <<>>
         /\ ap.pc # "returned"
  /\ (ap.pc = "raised" /\ ValidationError(ap.err)) =>
       /\ ap.k <= Len(ap.files) /\ BadEdit(ap.files[ap.k])
       /\ Len(ap.disk) = ap.k - 1
       /\ \A j \in 1..(ap.k - 1) :
            ap.disk[j] = pathJoin(ProjectDir, SplitSlash(sanitizeRelative(ProjectDir, ap.files[j]).rel))
       /\ ~ap.probed /\ ap.cmds = <<>>

\* the second edit of a batch was refused after the first was written
C15_Witness ==
  /\ ap.pc = "raised" /\ ValidationError(ap.err)
  /\ ap.k = 2
  /\ Len(ap.disk) = 1

\* ------------------------------------------------------------------------
\* Orchestration loop and prompt-and-apply run
\* ------------------------------------------------------------------------
\* C16: one invocation of the auto-fix loop issues at most maxAttempts
\* prompt-and-apply requests, it ends, and when it ends without a healthy
\* preview the error it shows is the failure reason of its last attempt.
C16_BoundedAttempts ==
  /\ [](fx.requests <= maxAttempts /\ fx.attempt <= maxAttempts)
  /\ []((fx.pc = "done" /\ ~fx.healthy) =>
          (fx.autoFixError.why # "none" /\ fx.autoFixError.attempt = fx.attempt))
  /\ <>(fx.pc = "done")

\* three attempts were made, none healthy; the third one's reason is shown
C16_Witness ==
  /\ fx.pc = "done" /\ ~fx.healthy
  /\ fx.requests = maxAttempts
  /\ fx.autoFixError = Failure("log error", maxAttempts)

LastResponse == run.responses[Len(run.responses)]

\* C17: a run that requires changes calls the model at most 3 times, a
\* retry follows only a response without edits and dependencies, and when
\* the last response still has neither the run raises before applyChanges.
C17_ModelCallsBounded ==
  run.require =>
    /\ run.calls <= 3
    /\ run.calls <= Len(run.responses) + 1
    /\ \A i \in 1..(Len(run.responses) - 1) : ~run.responses[i]
    /\ run.applyCalled => LastResponse
    /\ (Len(run.responses) = 3 /\ ~LastResponse) =>
         (run.pc = "rejected" /\ run.err = NoUpdatesError /\ ~run.applyCalled)

\* three responses without edits: the run raised and applied nothing
C17_Witness ==
  /\ run.require /\ run.calls = 3
  /\ run.pc = "rejected" /\ run.err = NoUpdatesError
  /\ ~run.applyCalled

\* C18: once the user has cancelled, the auto-fix run issues no further
\* model request.
C18_CancelIsTerminal ==
  [][fx'.modelCalls > fx.modelCalls => ~fx.cancelled]_vars

\* C19: when the model request of a run is aborted, the run resolves with a
\* result whose cancelled flag is true.
C19_AbortReportedAsCancelled ==
  (run.abortedRequest /\ run.pc \in {"resolved", "rejected"}) =>
    (run.pc = "resolved" /\ run.result.cancelled)

\* what the reply was built from
ParagraphText == JoinWith(parser.para, NL)
GivenPairs ==
  [i \in 1..Len(parser.segs) |->
     [path |-> parser.segs[i].path, content |-> JoinWith(parser.segs[i].lines, NL)]]
GivenNames == IF parser.deps.given THEN parser.deps.names ELSE <<>>
Parsed == parser.pc = "parsed"

\* C20: for a reply built from a summary paragraph, N >= 0 well-formed
\* "File: path" + fenced-block segments and an optional trailing
\* "Dependencies: [...]" line, the parser recovers exactly those N (path,
\* content) pairs in order and the dependency list, and the summary equals
\* the paragraph text trimmed.
C20_RoundTrip ==
  Parsed =>
    /\ parser.out.files = GivenPairs
    /\ parser.out.dependencies = GivenNames
    /\ parser.out.summary = Trim(ParagraphText)

\* C20, amended: the pairs are recovered exactly and in order; the
\* dependency list is recovered with repeated names dropped (first
\* occurrence kept); the summary is the trimmed paragraph when the reply
\* has at least one file segment, and the whole trimmed reply, Dependencies
\* line included, when it has none.
C20_RoundTripAmended ==
  Parsed =>
    /\ parser.out.files = GivenPairs
    /\ parser.out.dependencies = Dedupe(GivenNames)
    /\ parser.out.summary =
         IF parser.segs # <<>> THEN Trim(ParagraphText) ELSE Trim(parser.raw)
    /\ (parser.segs = <<>> /\ ~parser.deps.given) => parser.out.summary = Trim(ParagraphText)

\* a reply with a non-empty paragraph, two segments and two distinct names has been parsed
C20_Witness ==
  /\ Parsed
  /\ Trim(ParagraphText) # <<>>
  /\ Len(parser.segs) = 2
  /\ parser.deps.given /\ Len(parser.deps.names) = 2
  /\ parser.deps.names[1] # parser.deps.names[2]
  /\ Len(parser.out.files) = 2

\* a reply with no segment and a Dependencies line has been parsed
C20_WitnessNoSegment ==
  /\ Parsed
  /\ parser.segs = <<>>
  /\ parser.deps.given /\ parser.deps.names # <<>>
  /\ parser.out.summary # Trim(ParagraphText)

\* the one declaration of a reply of SpecForms, and the same in the File: form
Declared == parser.segs[1]
AsFileForm == [Declared EXCEPT !.form = "file"]
IsDeclaration == Declared.form # "noFence"

\* C21: the surface forms of a file declaration (File: line plus fence, bare
\* heading path plus fence, fence with a file hint, fence with a file-marker
\* comment) give the same file edits, path and content, for the same input,
\* paths with a leading "./" included.
C21_FormsAgree ==
  (Parsed /\ IsDeclaration) =>
    parser.out.files = parseAiResponse(formText(parser.para, AsFileForm)).files

\* a path with a leading "./" has been parsed in a form other than File:
C21_WitnessDotSlash ==
  /\ Parsed /\ IsDeclaration
  /\ Declared.form # "file"
  /\ StartsWith(Declared.path, <<".", "/">>)
  /\ Len(parser.out.files) = 1

\* C22: the parser returns a result for every input; its summary is the
\* trimmed text before the first line that starts a recognised file
\* declaration, and the entire trimmed input whenever the result has no
\* file edits.
C22_SummaryBeforeFirstFile ==
  Parsed =>
    parser.out.summary =
      IF parser.out.files = <<>> THEN Trim(parser.raw) ELSE Trim(ParagraphText)

\* a File: line that no fenced block follows has been parsed: no file edit
C22_WitnessNoFence ==
  /\ Parsed
  /\ Declared.form = "noFence"
  /\ parser.out.files = <<>>
  /\ Trim(ParagraphText) # <<>>

\* the names of the declarations of a reply of SpecDeps, in the order written
RECURSIVE DeclaredNames(_)
DeclaredNames(decls) ==
  IF decls = <<>> THEN <<>> ELSE Head(decls).names \o DeclaredNames(Tail(decls))
NoRepeat(list) == \A i, j \in 1..Len(list) : list[i] = list[j] => i = j
\* the positions of the first occurrences of the trimmed names increase
FirstOccurrence(list, x) ==
  CHOOSE i \in 1..Len(list) : Trim(list[i]) = x /\ \A j \in 1..(i - 1) : Trim(list[j]) # x

\* C23: the dependencies returned by the parser hold no name twice (names
\* compared with case after trimming) and list the names of all the
\* Dependencies declarations of the input in order of first occurrence.
C23_DependenciesUnique ==
  Parsed =>
    LET given == DeclaredNames(parser.deps)
        out == parser.out.dependencies
    IN /\ NoRepeat(out)
       /\ Elems(out) = { Trim(given[i]) : i \in 1..Len(given) }
       /\ \A i, j \in 1..Len(out) :
            i < j => FirstOccurrence(given, out[i]) < FirstOccurrence(given, out[j])

\* two declarations that repeat a name, once with a blank before it and
\* once in the other case, have been parsed
C23_Witness ==
  /\ Parsed
  /\ Len(parser.deps) = 2
  /\ \E i \in 1..Len(parser.deps[1].names), j \in 1..Len(parser.deps[2].names) :
       /\ parser.deps[1].names[i] # parser.deps[2].names[j]
       /\ Trim(parser.deps[1].names[i]) = Trim(parser.deps[2].names[j])
  /\ <<"C">> \in Elems(parser.out.dependencies)
  /\ <<"c">> \in Elems(parser.out.dependencies)
  /\ Len(parser.out.dependencies) < Len(DeclaredNames(parser.deps))

\* is a a subsequence of b: the elements of a, in their order, among those of b
RECURSIVE IsSubsequence(_, _)
IsSubsequence(a, b) ==
  IF a = <<>> THEN TRUE
  ELSE IF b = <<>> THEN FALSE
  ELSE IF Head(a) = Head(b) THEN IsSubsequence(Tail(a), Tail(b))
  ELSE IsSubsequence(a, Tail(b))

\* C24: the classifier is idempotent and order-preserving: for every list
\* and either value of the flag, classifying the valid names again returns
\* them unchanged, and the valid names are a subsequence of the list.
C24_ClassifierIdempotent ==
  /\ ap.pc \in {"classified", "again"} => IsSubsequence(ap.valid, ap.raw)
  /\ ap.pc = "again" => ap.again = ap.valid

\* a list whose second name is valid and whose first is not, the
\* competing router in a web-framework project, has been classified twice
C24_Witness ==
  /\ ap.pc = "again"
  /\ ap.isNextProject
  /\ Len(ap.raw) = 2 /\ isReactRouter(ap.raw[1])
  /\ ap.valid = << ap.raw[2] >>

\* the rejection rules as the claim lists them, each on a name n
RuleWhitespace(n) == \E i \in 1..Len(n) : IsSpace(n[i])
RuleDenyList(n) == n \in denyExact
RuleInternalScope(n) == StartsWith(toLowerCase(n), <<"@", "n", "e", "x", "t", "/">>)
RuleUrl(n) ==
  \/ \E pre \in { <<"g", "i", "t", "+">>, <<"g", "i", "t", ":", "/", "/">>, <<"s", "s", "h", ":", "/", "/">>, <<"g", "i", "t", "h", "u", "b", ":">> } : StartsWith(toLowerCase(n), pre)
  \/ Includes(toLowerCase(n), <<"g", "i", "t", "h", "u", "b", ".", "c", "o", "m", "/">>)
  \/ EndsWith(toLowerCase(n), <<".", "g", "i", "t">>)
RuleRouter(n) ==
  \E router \in { <<"r", "e", "a", "c", "t", "-", "r", "o", "u", "t", "e", "r">>, <<"r", "e", "a", "c", "t", "-", "r", "o", "u", "t", "e", "r", "-", "d", "o", "m">> } : n = router \/ StartsWith(n, router \o <<"@">>)
RuleSubPath(n) == Includes(n, <<"/">>) /\ n[1] # "@"
RulePluginScope(n) == StartsWith(n, <<"@", "t", "a", "i", "l", "w", "i", "n", "d", "c", "s", "s", "/">>) /\ n \notin tailwindAllow
\* the pinned-version form of the package that does not exist
RulePinnedBogus(n) == StartsWith(n, <<"@", "v", "e", "r", "c", "e", "l", "/", "p", "r", "e", "a", "c", "t", "@">>)

ListedRule(n, flag) ==
  \/ RuleWhitespace(n) \/ RuleDenyList(n) \/ RuleInternalScope(n) \/ RuleUrl(n)
  \/ (flag /\ RuleRouter(n))
  \/ RuleSubPath(n) \/ RulePluginScope(n)
Classified == ap.pc \in {"classified", "again"}
AcceptedName(n) == n \in Elems(ap.valid)

\* C25: the classifier accepts a name if and only if none of the rejection
\* rules applies (whitespace, exact deny-list, framework-internal scope, URL
\* or VCS specifier, competing router while the flag is true, "/" without a
\* leading "@", styling plugin scope off its allow-list); the competing
\* router is accepted when the flag is false, and the verdict depends only
\* on the name and the flag.
C25_AcceptIffNoRule ==
  Classified =>
    \A i \in 1..Len(ap.raw) :
      AcceptedName(ap.raw[i]) <=> ~ListedRule(ap.raw[i], ap.isNextProject)

\* C25, amended: the rules of the claim and one more, the pinned-version
\* form of the known-nonexistent scoped package, which is rejected as well.
C25_AcceptIffNoRuleAmended ==
  Classified =>
    \A i \in 1..Len(ap.raw) :
      AcceptedName(ap.raw[i]) <=>
        ~(ListedRule(ap.raw[i], ap.isNextProject) \/ RulePinnedBogus(ap.raw[i]))

\* the pinned competing router has been classified with the flag false and
\* accepted, next to a scoped name off the plugin allow-list, rejected
C25_Witness ==
  /\ Classified
  /\ ~ap.isNextProject
  /\ Len(ap.raw) = 2
  /\ RuleRouter(ap.raw[1]) /\ ap.raw[1] # <<"r", "e", "a", "c", "t", "-", "r", "o", "u", "t", "e", "r">>
  /\ RulePluginScope(ap.raw[2])
  /\ ap.valid = << ap.raw[1] >>

\* the pinned form of the nonexistent package has been classified
C25_WitnessPinned ==
  /\ Classified
  /\ \E i \in 1..Len(ap.raw) : RulePinnedBogus(ap.raw[i]) /\ ~AcceptedName(ap.raw[i])

\* ------------------------------------------------------------------------
\* Routed pages with the client marker and a metadata export
\* ------------------------------------------------------------------------
\* what a text holds, read off its characters
Marked(s) == Includes(s, <<"'", "u", "s", "e", " ", "c", "l", "i", "e", "n", "t", "'">>)
ExportsMetadata(s) ==
  Includes(s, <<"e", "x", "p", "o", "r", "t", " ", "c", "o", "n", "s", "t", " ", "m", "e", "t",
      "a", "d", "a", "t", "a", " ", "=">>) \/ Includes(s, <<"f", "u", "n", "c", "t", "i", "o",
          "n", " ", "g", "e", "n", "e", "r", "a", "t", "e", "M", "e", "t", "a", "d", "a", "t",
              "a", "(">>)
\* a routed page went through one of the two passes
PageProcessed == rp.pc = "done" /\ rp.isNextProject /\ isPageFile(rp.path)
\* the pass that processed the page found client-only usage in it
ClientOnlyDetected ==
  IF rp.by = "apply" THEN usesClientOnly(withoutGlobalsImports(rp.src))
  ELSE repairUsesClientOnly(rp.src)

\* C26: a routed page that has the client marker and a page-metadata export
\* loses the marker and keeps the export if the pass that processes it
\* detects no client-only usage, and otherwise loses the export(s) and
\* keeps the marker; either way the file that results no longer has both,
\* be it written by the change applier or processed by the repair pass.
C26_ConflictResolved ==
  (PageProcessed /\ Marked(rp.src) /\ ExportsMetadata(rp.src)) =>
    IF ClientOnlyDetected
    THEN Marked(rp.out) /\ ~ExportsMetadata(rp.out)
    ELSE ~Marked(rp.out) /\ ExportsMetadata(rp.out)

\* the conflict and the client-only usage as each pass tests for them
ApplierSeesConflict ==
  /\ hasUseClient(headOf(withoutGlobalsImports(rp.src)))
  /\ hasMetadataExport(withoutGlobalsImports(rp.src))
RepairSeesConflict == hasUseClient(rp.src) /\ repairHasMetadataExport(rp.src)
ApplierSeesClientOnly == usesClientOnly(withoutGlobalsImports(rp.src))
RepairSeesClientOnly == repairUsesClientOnly(rp.src)

\* C27: the change applier and the repair pass use the same heuristic: on
\* every content of a routed page they agree on whether the marker/metadata
\* conflict is present, and where it is, on whether client-only usage is
\* detected, so that they choose the same resolution.
C27_SameHeuristic ==
  PageProcessed =>
    /\ ApplierSeesConflict = RepairSeesConflict
    /\ (ApplierSeesConflict /\ RepairSeesConflict) =>
         (ApplierSeesClientOnly = RepairSeesClientOnly)

\* C28: the repair pass is idempotent: when the second of two runs in a row
\* has ended, the files and the manifest of the project are those the first
\* run left, and the second run reports that no re-install is needed.
SecondPassEnded == PassEnded /\ rp.pass = 2
C28_Idempotent ==
  SecondPassEnded => /\ snapshot(rp.w) = rp.before
                     /\ ~repairReinstall

\* C29: an error inside one fixup never aborts the pass: a pass that has
\* ended has run every one of its fixups, whatever was thrown on the way.
AllFixups == {Fixups[i] : i \in 1..Len(Fixups)}
C29_FixupErrorsCaught == PassEnded => rp.ran = AllFixups

\* C30: after a pass that returned, on a project whose manifest readJson
\* gave as an object and whose stylesheet or PostCSS configuration implies
\* Tailwind v4, the PostCSS configuration names @tailwindcss/postcss, the
\* manifest declares tailwindcss and @tailwindcss/postcss at major version 4 in
\* whichever section declares them, and a re-install is flagged if the
\* PostCSS configuration or the manifest changed.
caret4 == <<"^", "4">>
atV4(v) == v # NoVersion /\ (StartsWith(v, caret4) \/ StartsWith(v, <<"4">>))
declaredAtV4(pkg, name) ==
  /\ ~bothNull(pkg, name)
  /\ pkg.dependencies[name] # NoVersion => atV4(pkg.dependencies[name])
  /\ pkg.devDependencies[name] # NoVersion => atV4(pkg.devDependencies[name])
ImpliedV4Before ==
  /\ rp.before.pkg.kind = "object"
  /\ projectUsesTailwindV4(readText(rp.before.files, firstExisting(rp.before.files, globalsCandidates)),
                           readText(rp.before.files, firstExisting(rp.before.files, postcssCandidates)))
RepairedV4 == InPass /\ rp.pc = "returned" /\ ImpliedV4Before
postcssFiles(files) == [p \in {PostcssMjs, PostcssJs, PostcssCjs} |-> files[p]]
C30_TailwindV4Coherent ==
  RepairedV4 =>
    /\ test(orEmpty(postcssCfg(rp.w)), tailwindPostcss)
    /\ declaredAtV4(rp.w.pkg, "tailwindcss")
    /\ declaredAtV4(rp.w.pkg, "@tailwindcss/postcss")
    /\ (postcssFiles(rp.w.files) # postcssFiles(rp.before.files) \/ rp.w.pkg # rp.before.pkg)
         => rp.w.reinstallDeps

\* C31: after any sequence of appends, the log of the instance holds at most
\* MAX_LOG_LINES lines, and they are the non-empty lines appended last, in the
\* order in which they were appended.
newestAppended(n) == SubSeq(appended.lines, Len(appended.lines) - n + 1, Len(appended.lines))
C31_LogIsNewestLines ==
  /\ Len(inst.logs) <= MAX_LOG_LINES
  /\ Len(inst.logs) = IF Len(appended.lines) < MAX_LOG_LINES THEN Len(appended.lines)
                      ELSE MAX_LOG_LINES
  /\ inst.logs = newestAppended(Len(inst.logs))
C31_Witness ==
  /\ Len(appended.lines) > MAX_LOG_LINES
  /\ Len(inst.logs) = MAX_LOG_LINES
  /\ inst.logs[1] # appended.lines[1]
  /\ \E i \in 1..Len(inst.logs) : inst.logs[i][1] = "msg"

\* C32: start() calls that overlap are not mutually excluded.  A start() that
\* spawns while the handle refers to a live child of another call overwrites
\* the handle and sends that child no signal, and a live child that is not the
\* handle and was never signalled (an orphan) is never signalled afterwards and
\* never becomes the handle again.
Orphan(p) == procs[p].status = "live" /\ inst.proc # p /\ procs[p].sigs = {}
SpawnedBy(c) == procs[c].status = "unspawned" /\ procs'[c].status # "unspawned"
C32_OverlapOrphans ==
  [][\A p \in Procs :
       /\ (procs[p].status = "live" /\ inst.proc = p /\ \E c \in Procs \ {p} : SpawnedBy(c))
            => (inst'.proc # p /\ inst'.proc # 0 /\ procs'[p] = procs[p] /\ Orphan(p)')
       /\ Orphan(p) => (inst'.proc # p /\ procs'[p].sigs = {})]_vars
\* both calls have spawned a dev server, both children are alive, the handle
\* refers to one and the other was never signalled
C32_Witness ==
  \E p \in Procs :
    /\ Orphan(p)
    /\ inst.proc # 0 /\ procs[inst.proc].status = "live"
    /\ \A c \in StartCalls : starts[c].pc = "returned"

\* C33: a start() with autoInstallDeps false never reaches an install command,
\* whatever the repair pass returned: it goes from the repair pass to the
\* spawn.  Otherwise ensureDeps follows the repair pass, a second install
\* follows it exactly when the repair pass asked for one, and a failed install
\* command ends the call at once: no child is spawned and start() returns the
\* status of the instance with state error.
Installing(c) == starts[c].pc \in {"deps", "reinstall"}
InstallFails(c) == Installing(c) /\ inst'.error = PlainError("install failed") /\ starts'[c] # starts[c]
C33_InstallGate ==
  [][\A c \in StartCalls :
       /\ Installing(c)' => starts[c].auto'
       /\ (starts[c].pc = "repair" /\ starts'[c] # starts[c]) =>
            IF starts[c].auto
            THEN starts'[c].pc = "deps" /\ procs' = procs
            ELSE starts'[c].pc \in {"probe", "returned"}
                   /\ (procs'[c].status # "unspawned" \/ inst'.error = PlainError("spawn failed"))
       /\ (starts'[c].pc = "deps" /\ starts[c].pc # "deps") => starts[c].pc = "repair"
       /\ (starts'[c].pc = "reinstall" /\ starts[c].pc # "reinstall")
            => (starts[c].pc = "deps" /\ starts[c].reinstall)
       /\ (starts[c].pc = "deps" /\ starts[c].reinstall /\ starts'[c] # starts[c])
            => (procs' = procs /\ (starts'[c].pc = "reinstall" \/ InstallFails(c)))
       /\ InstallFails(c) =>
            /\ procs' = procs /\ procs[c].status = "unspawned"
            /\ starts'[c].pc = "returned"
            /\ ret' = StartReturn(c, inst') /\ ret'.status.state = "error"]_vars
\* an install command has failed: the call returned state error, no child spawned
C33_Witness ==
  /\ ret.op = "start" /\ ret.status.state = "error"
  /\ inst.error = PlainError("install failed")
  /\ procs[ret.call].status = "unspawned"

\* C35: an instance whose state is running holds the handle and the pid of a
\* child that has emitted neither exit nor error, also when the child exits
\* while a readiness probe is in flight.
C35_RunningHasLiveChild ==
  inst.state = "running" =>
    /\ inst.proc # 0
    /\ inst.pid # 0
    /\ procs[inst.proc].status = "live"

\* C36: Starting is transient.  No start() call completes, by returning or by
\* raising, with its instance left in state starting: when no call is in
\* flight the instance is running, error or stopped.
C36_StartingIsTransient == ~InFlight => inst.state # "starting"

\* C38: logs(projectPath, {tail: n}) returns at most n lines for every n >= 0:
\* the last min(n, length) lines of the log of the instance, in order, with
\* n = 250 when tail is omitted.
asked(opts) == IF opts.has THEN opts.tail ELSE 250
C38_LogsTail ==
  [][(ret'.op = "logs" /\ ret' # ret) =>
       LET n == asked(ret'.opts)
           len == Len(inst.logs)
           m == IF n < len THEN n ELSE len
       IN /\ Len(ret'.lines) <= n
          /\ ret'.lines = SubSeq(inst.logs, len - m + 1, len)]_vars

\* C34: the auto-fix loop repeats only when a problem is detected after the
\* restart.  An attempt after which the restarted preview is running, no
\* error line was logged since that restart and the page reported no runtime
\* error ends the loop at that attempt, with no failure reported.
lastStart(lines) ==
  CHOOSE i \in 1..Len(lines) :
    lines[i] = StartingLine /\ \A j \in (i + 1)..Len(lines) : lines[j] # StartingLine
errorSinceRestart(lines) ==
  \E i \in lastStart(lines)..Len(lines) : isErrorLine(Trim(lines[i]))
RestartChecked == fx.pc = "restart" /\ inst' # inst
C34_HealthyEndsLoop ==
  [][(/\ RestartChecked
      /\ inst'.state = "running"
      /\ ~errorSinceRestart(inst'.logs)
      /\ ~fx'.runtimeError)
       => (/\ fx'.pc = "done"
           /\ fx'.attempt = fx.attempt
           /\ fx'.autoFixError = NoFailure
           /\ fx'.lastFailure = NoFailure)]_vars

\* C37: at most one auto-fix loop is active at a time.  Pressing Fix while
\* another auto-fix loop or a chat run is in progress does nothing: a loop
\* begins only when no other loop is active and no chat run is in progress,
\* whatever the order of Fix, Send and Stop.
ActiveLoops == {l \in Loops : LoopActive(fx, l)}
ActiveChats == {k \in Sends : ChatActive(fx, k)}
C37_OneLoopAtATime ==
  [][\A l \in Loops :
       (~LoopActive(fx, l) /\ LoopActive(fx', l)) => (ActiveLoops = {} /\ ActiveChats = {})]_vars

\* C39: undo() followed by redo() is a round trip.  When undo() has moved the
\* newest undo entry to the redo stack and written its 'before' content, and
\* the redo() called next has completed, both stacks and the content of the
\* files are as they were before the undo().
C39_UndoRedoRoundTrip ==
  dh.trip = "redone" =>
    /\ dh.undo = dh.start.undo
    /\ dh.redo = dh.start.redo
    /\ dh.disk = dh.start.disk

\* C40: a failed file write during undo() or redo() leaves the history as it
\* was: the entry of the call is still on the stack it was on before the
\* call, and both stacks are what they were.
C40_FailedWriteKeepsEntry ==
  (dh.result = "raised" /\ dh.op \in {"undo", "redo"}) =>
    /\ dh.undo = dh.pre.undo
    /\ dh.redo = dh.pre.redo

====
